---- MODULE Spec2Model ----
(***************************************************************************)
(* Verification model of the Amamoto simulation core (WebAssembly ECS      *)
(* implementation): the entity store WasmWorld, the component pools, the   *)
(* per-tick systems and the WasmTrafficSimulation facade.                  *)
(*                                                                         *)
(* Numbers.  The code computes in `float`.  The model computes in fixed    *)
(* point: a number is an integer counting units of 1/Scale, or the value   *)
(* NaN.  Sums, differences, comparisons and products with whole numbers    *)
(* are exact; a quotient or a square root is truncated to the unit.  The   *)
(* timer of a traffic signal, the one number that grows past 2^24 units,   *)
(* is rounded to the 24 significant bits of a float.                       *)
(*                                                                         *)
(* Builds.  assert() is kept or compiled out (NDEBUG); ndebug is chosen    *)
(* at construction, and a failed assertion sets trapped for good.          *)
(*                                                                         *)
(* Specifications.  Spec drives the facade without a road network,         *)
(* SpecRoad drives it with road networks attached and paths requested,     *)
(* SpecWorld drives the entity store WasmWorld directly, SpecNet edits a   *)
(* road network, SpecPath and SpecCrowded ask routes of the facade on the  *)
(* edited network, SpecJunction on three segments joined at one point,     *)
(* SpecDetour on a ring of four segments with a shorter and a longer way   *)
(* round, SpecSearch runs the route search of that ring one loop iteration *)
(* at a time, SpecSteer updates road vehicles with short and long steps,   *)
(* SpecSignal runs the facade with traffic signals added by the caller,    *)
(* SpecCycle runs one signal for ever under weak fairness of the frame,    *)
(* SpecCollide with vehicles close to each other inside the bounds,        *)
(* SpecSimple drives the simplified facade of SimpleTrafficSimulation.cpp, *)
(* and SpecCore the core facade of TrafficSimulation.cpp over World.       *)
(***************************************************************************)
EXTENDS Integers, Sequences, FiniteSets, TLC

(***************************************************************************)
(* Bounds of the model.                                                    *)
(***************************************************************************)
MaxEntities == 2      \* cap on m_entities.size()
MaxTicks == 2         \* cap on the number of update() calls
MaxSystems == 6       \* cap on m_systems.size() (setRoadNetwork appends)
MaxReserve == 2       \* largest count passed to reserveVehicles
MaxRoadEntities == 1  \* cap on m_entities.size() when road networks are at hand
MaxSegments == 2      \* cap on the segments created in the edited network
MaxIntersections == 1 \* cap on the intersections of the edited network
MaxLanes == 3         \* cap on the lanes of a segment
MaxVehicles == 3      \* cap on m_vehicles.size() of the simplified facade

(***************************************************************************)
(* Fixed-point numbers.                                                    *)
(***************************************************************************)
Scale == 16
\* the float NaN: an integer no computation of the model reaches
NaN == 1000000007
\* an empty slot of a component pool
NoComponent == [absent |-> TRUE]
\* the null WasmRoadNetwork pointer, and what it designates
None == "None"
NoNetwork == [absent |-> TRUE]

Fx(n) == n * Scale

Abs(a) == IF a < 0 THEN -a ELSE a

IsNaN(a) == a = NaN

\* truncating integer division (rounds toward zero, as a float-to-unit cut)
TruncDiv(a, b) == IF (a >= 0) = (b > 0) THEN Abs(a) \div Abs(b) ELSE -(Abs(a) \div Abs(b))

\* a float has a significand of 24 bits: the integers of magnitude below
\* Exact units are floats, and from there on only the multiples of a power of
\* two are
Exact == 16777216

RECURSIVE Spacing(_, _)
\* the distance between neighbouring floats around the magnitude a >= Exact
\* (q is a power of two not above it)
Spacing(a, q) == IF a \div q < Exact THEN q ELSE Spacing(a, 2 * q)

\* the float nearest to the number of x units (ties go to the even significand)
FRound(x) ==
    IF IsNaN(x) \/ Abs(x) < Exact THEN x
    ELSE LET q == Spacing(Abs(x), 2)
             below == (Abs(x) \div q) * q
             rest == Abs(x) - below
             nearest == IF 2 * rest > q \/ (2 * rest = q /\ (below \div q) % 2 = 1)
                        THEN below + q ELSE below
         IN  IF x < 0 THEN -nearest ELSE nearest

\* sums and differences: exact below Exact units, which every sum of the
\* model stays below but the timer of a traffic signal (rounded there)
FAdd(a, b) == IF IsNaN(a) \/ IsNaN(b) THEN NaN ELSE a + b
FSub(a, b) == IF IsNaN(a) \/ IsNaN(b) THEN NaN ELSE a - b
FNeg(a) == IF IsNaN(a) THEN NaN ELSE -a
FMul(a, b) == IF IsNaN(a) \/ IsNaN(b) THEN NaN ELSE TruncDiv(a * b, Scale)
\* x / 0 is NaN for x = 0; a non-zero x over 0 is an infinity, which the
\* model also represents by NaN (no comparison the code makes on it differs
\* after the next subtraction or product with 0)
FDiv(a, b) == IF IsNaN(a) \/ IsNaN(b) \/ b = 0 THEN NaN ELSE TruncDiv(a * Scale, b)
\* every comparison with NaN is false
FLt(a, b) == ~IsNaN(a) /\ ~IsNaN(b) /\ a < b
FGt(a, b) == ~IsNaN(a) /\ ~IsNaN(b) /\ a > b
FLe(a, b) == ~IsNaN(a) /\ ~IsNaN(b) /\ a <= b
FGe(a, b) == ~IsNaN(a) /\ ~IsNaN(b) /\ a >= b

RECURSIVE SqrtSearch(_, _, _)
SqrtSearch(n, lo, hi) ==
    IF lo >= hi THEN lo
    ELSE LET mid == (lo + hi + 1) \div 2
         IN  IF mid * mid <= n THEN SqrtSearch(n, mid, hi) ELSE SqrtSearch(n, lo, mid - 1)

\* floor of the square root of a natural number below 2^31 (whose root is
\* at most 46340)
ISqrt(n) == SqrtSearch(n, 0, IF n < 46340 THEN n ELSE 46340)

\* std::sqrt(dx * dx + dy * dy) for two fixed-point numbers, in units
Hypot(dx, dy) == IF IsNaN(dx) \/ IsNaN(dy) THEN NaN ELSE ISqrt(dx * dx + dy * dy)

WasmVector2D(x, y) == [x |-> x, y |-> y]

(***************************************************************************)
(* Component types and their constructors (WasmComponents.h).              *)
(***************************************************************************)
Transform == "Transform"
Vehicle == "Vehicle"
PathFollowing == "PathFollowing"
Bounds == "Bounds"
Collision == "Collision"
Renderable == "Renderable"
TrafficSignal == "TrafficSignal"

ComponentTypes == {Transform, Vehicle, PathFollowing, Bounds, Collision, Renderable, TrafficSignal}

WasmTransformComponent(position, velocity) ==
    [position |-> position, velocity |-> velocity]

DefaultMaxSpeed == Fx(100)

WasmVehicleComponent ==
    [maxSpeed |-> DefaultMaxSpeed, currentSpeed |-> 0, targetSpeed |-> 0]

WasmPathFollowingComponent ==
    [path |-> <<>>, currentPathIndex |-> 0, distanceAlongCurrentSegment |-> 0]

WasmBoundsComponent(width, height) ==
    [width |-> width, height |-> height, keepInBounds |-> TRUE]

WasmCollisionComponent(radius) ==
    [radius |-> radius, colliding |-> FALSE, collidingWith |-> <<>>]

WasmRenderableComponent == [visible |-> TRUE]

VehicleRadius == Fx(2)

(***************************************************************************)
(* WasmWorld: the entity store.  A world is a record with the fields of    *)
(* the class.  Identifier i has its mask at m_entityMasks[i + 1].  A pool  *)
(* maps every identifier to its component or to NoComponent (an index      *)
(* beyond the pool's vector, or a reset slot).                             *)
(***************************************************************************)
\* the identifiers in use: MaxEntities of them, and one more for the entity
\* of initialize where MaxEntities vehicles follow it
EntityIds == 0 .. MaxEntities

\* the identifiers the caller passes to the calls that take one
CallerIds == 0 .. (MaxEntities - 1)

EmptyPool == [i \in EntityIds |-> NoComponent]

\* WasmWorld::WasmWorld
NewWorld ==
    [m_entities |-> <<>>,
     m_entityMasks |-> <<>>,
     m_freeEntities |-> <<>>,
     m_entityCount |-> 0,
     m_componentPools |-> [c \in ComponentTypes |-> EmptyPool],
     m_systems |-> <<>>]

\* WasmWorld::entityExists
entityExists(w, id) ==
    id < Len(w.m_entities) /\ w.m_entityMasks[id + 1] # {}

\* WasmWorld::createEntity: the world after the call and the id returned
createEntity(w) ==
    IF w.m_freeEntities # <<>>
    THEN LET id == w.m_freeEntities[Len(w.m_freeEntities)]
         IN  [world |-> [w EXCEPT !.m_freeEntities = SubSeq(@, 1, Len(@) - 1),
                                  !.m_entityMasks[id + 1] = {},
                                  !.m_entityCount = @ + 1],
              id |-> id]
    ELSE LET id == Len(w.m_entities)
         IN  [world |-> [w EXCEPT !.m_entities = Append(@, id),
                                  !.m_entityMasks = Append(@, {}),
                                  !.m_entityCount = @ + 1],
              id |-> id]

\* WasmTypedComponentPool::removeComponent for every pool named by the mask
RemoveAllComponents(w, id) ==
    [c \in ComponentTypes |->
        IF c \in w.m_entityMasks[id + 1]
        THEN [w.m_componentPools[c] EXCEPT ![id] = NoComponent]
        ELSE w.m_componentPools[c]]

\* WasmWorld::destroyEntity
destroyEntity(w, id) ==
    IF ~entityExists(w, id) THEN w
    ELSE [w EXCEPT !.m_componentPools = RemoveAllComponents(w, id),
                   !.m_entityMasks[id + 1] = {},
                   !.m_freeEntities = Append(@, id),
                   !.m_entityCount = @ - 1]

\* WasmWorld::addComponent, after its assertion (which AddAsserts states)
addComponent(w, id, c, value) ==
    [w EXCEPT !.m_entityMasks[id + 1] = @ \cup {c},
              !.m_componentPools[c][id] = value]

\* assert(entityExists(entity) && "Entity does not exist") of addComponent
AddAsserts(w, id) == entityExists(w, id)

\* a faulty removeComponent: the bit of the mask is reset, the pool keeps the
\* component
removeComponentKeepingPool(w, id, c) ==
    IF ~entityExists(w, id) THEN w
    ELSE [w EXCEPT !.m_entityMasks[id + 1] = @ \ {c}]

\* a faulty removeComponent: the whole mask is reset
removeComponentResettingMask(w, id, c) ==
    IF ~entityExists(w, id) THEN w
    ELSE [w EXCEPT !.m_entityMasks[id + 1] = {},
                   !.m_componentPools[c][id] = NoComponent]

\* WasmWorld::removeComponent
removeComponent(w, id, c) ==
    IF ~entityExists(w, id) THEN w
    ELSE [w EXCEPT !.m_entityMasks[id + 1] = @ \ {c},
                   !.m_componentPools[c][id] = NoComponent]

\* WasmWorld::hasComponent
hasComponent(w, id, c) ==
    entityExists(w, id) /\ c \in w.m_entityMasks[id + 1]

\* WasmWorld::getComponent (the slot of the pool)
getComponent(w, id, c) == w.m_componentPools[c][id]

RECURSIVE EntitiesWithFrom(_, _, _)
\* the loop of getEntitiesWith from index i on
EntitiesWithFrom(w, required, i) ==
    IF i >= Len(w.m_entityMasks) THEN <<>>
    ELSE IF required \subseteq w.m_entityMasks[i + 1]
         THEN <<i>> \o EntitiesWithFrom(w, required, i + 1)
         ELSE EntitiesWithFrom(w, required, i + 1)

\* WasmWorld::getEntitiesWith<Components...>
getEntitiesWith(w, required) == EntitiesWithFrom(w, required, 0)

\* WasmWorld::getEntityCount
getEntityCount(w) == w.m_entityCount

\* WasmWorld::registerSystem
registerSystem(w, system) == [w EXCEPT !.m_systems = Append(@, system)]

(***************************************************************************)
(* WasmRoadNetwork: segments, lanes and intersections.  A network is a     *)
(* record with the fields of the class; the two unordered_maps are         *)
(* functions on the set of identifiers in use.  A pointer to an            *)
(* intersection is the intersection's identifier, or nullptr.              *)
(***************************************************************************)
nullptr == -1
\* static_cast<WasmRoadSegmentID>(-1), also for intersections: the all-ones
\* identifier, which no segment or intersection of the model bears
InvalidId == -1
Half == Scale \div 2
DefaultLaneWidth == (7 * Scale) \div 2
DefaultMaxDistance == Fx(50)
NeighborScanLimit == 100

EmptyMap == [k \in {} |-> k]

\* m[k] = v of an unordered_map
Put(m, k, v) == [x \in (DOMAIN m) \cup {k} |-> IF x = k THEN v ELSE m[x]]

\* WasmLane::WasmLane
WasmLane(id, width, type) == [m_id |-> id, m_width |-> width, m_type |-> type]

\* WasmRoadSegment::WasmRoadSegment
WasmRoadSegment(id, startPoint, endPoint) ==
    [m_id |-> id,
     m_startPoint |-> startPoint,
     m_endPoint |-> endPoint,
     m_length |-> Hypot(FSub(endPoint.x, startPoint.x), FSub(endPoint.y, startPoint.y)),
     m_lanes |-> <<>>,
     m_startIntersection |-> nullptr,
     m_endIntersection |-> nullptr]

\* WasmRoadSegment::addLane (the segment after the call; the lane id it
\* returns is the lane count before the call)
addLane(segment, width, type) ==
    [segment EXCEPT !.m_lanes = Append(@, WasmLane(Len(@), width, type))]

\* WasmRoadSegment::getPointAtDistance
getPointAtDistance(segment, distance) ==
    LET least == IF FLt(segment.m_length, distance) THEN segment.m_length ELSE distance
        d == IF FLt(0, least) THEN least ELSE 0
        t == FDiv(d, segment.m_length)
    IN  WasmVector2D(
            FAdd(segment.m_startPoint.x, FMul(FSub(segment.m_endPoint.x, segment.m_startPoint.x), t)),
            FAdd(segment.m_startPoint.y, FMul(FSub(segment.m_endPoint.y, segment.m_startPoint.y), t)))

\* WasmIntersection::WasmIntersection
WasmIntersection(id, position) ==
    [m_id |-> id, m_position |-> position, m_connectedRoads |-> <<>>, m_connections |-> EmptyMap]

\* WasmRoadNetwork::WasmRoadNetwork
NewNetwork ==
    [m_roadSegments |-> EmptyMap,
     m_intersections |-> EmptyMap,
     m_nextRoadId |-> 0,
     m_nextIntersectionId |-> 0]

\* WasmRoadNetwork::getRoadSegment returns a segment (not nullptr)
hasRoadSegment(net, id) == id \in DOMAIN net.m_roadSegments

\* WasmRoadNetwork::getRoadSegment, where it does not return nullptr
getRoadSegment(net, id) == net.m_roadSegments[id]

\* WasmRoadNetwork::createRoadSegment: the network after the call and the id
createRoadSegment(net, startX, startY, endX, endY) ==
    LET id == net.m_nextRoadId
        roadSegment == addLane(WasmRoadSegment(id, WasmVector2D(startX, startY), WasmVector2D(endX, endY)),
                               DefaultLaneWidth, "Driving")
    IN  [network |-> [net EXCEPT !.m_nextRoadId = @ + 1,
                                 !.m_roadSegments = Put(@, id, roadSegment)],
         id |-> id]

\* WasmRoadNetwork::createIntersection: the network after the call and the id
createIntersection(net, x, y) ==
    LET id == net.m_nextIntersectionId
    IN  [network |-> [net EXCEPT !.m_nextIntersectionId = @ + 1,
                                 !.m_intersections = Put(@, id, WasmIntersection(id, WasmVector2D(x, y)))],
         id |-> id]

\* a faulty connectRoad: the reference of the other end is set
connectRoadAtOtherEnd(net, i, roadId, isStart) ==
    [net EXCEPT !.m_intersections[i].m_connectedRoads = Append(@, roadId),
                !.m_roadSegments[roadId] =
                    IF isStart THEN [@ EXCEPT !.m_endIntersection = i]
                    ELSE [@ EXCEPT !.m_startIntersection = i]]

\* WasmIntersection::connectRoad on intersection i and segment roadId
connectRoad(net, i, roadId, isStart) ==
    [net EXCEPT !.m_intersections[i].m_connectedRoads = Append(@, roadId),
                !.m_roadSegments[roadId] =
                    IF isStart THEN [@ EXCEPT !.m_startIntersection = i]
                    ELSE [@ EXCEPT !.m_endIntersection = i]]

\* a faulty defineConnection: the connection replaces those of the key
defineConnectionOverwriting(connections, inRoadId, inLaneId, outRoadId, outLaneId) ==
    Put(connections, <<inRoadId, inLaneId>>, <<[roadId |-> outRoadId, laneId |-> outLaneId]>>)

\* WasmIntersection::defineConnection on a connection table
defineConnection(connections, inRoadId, inLaneId, outRoadId, outLaneId) ==
    LET key == <<inRoadId, inLaneId>>
        connection == [roadId |-> outRoadId, laneId |-> outLaneId]
        old == IF key \in DOMAIN connections THEN connections[key] ELSE <<>>
    IN  Put(connections, key, Append(old, connection))

RECURSIVE DefineAll(_, _, _, _, _, _, _)
\* the two nested lane loops of connectWithIntersection
DefineAll(connections, road1Id, count1, road2Id, count2, lane1, lane2) ==
    IF lane1 >= count1 THEN connections
    ELSE IF lane2 >= count2 THEN DefineAll(connections, road1Id, count1, road2Id, count2, lane1 + 1, 0)
    ELSE DefineAll(defineConnection(defineConnection(connections, road1Id, lane1, road2Id, lane2),
                                    road2Id, lane2, road1Id, lane1),
                   road1Id, count1, road2Id, count2, lane1, lane2 + 1)

\* a faulty connectWithIntersection: the intersection is created before the
\* two segments are looked up
connectWithIntersectionCreatingFirst(net, road1Id, road1End, road2Id, road2End) ==
    IF ~hasRoadSegment(net, road1Id) \/ ~hasRoadSegment(net, road2Id)
    THEN [network |-> createIntersection(net, 0, 0).network, id |-> InvalidId]
    ELSE LET road1 == getRoadSegment(net, road1Id)
             road2 == getRoadSegment(net, road2Id)
             p1 == IF road1End THEN road1.m_endPoint ELSE road1.m_startPoint
             p2 == IF road2End THEN road2.m_endPoint ELSE road2.m_startPoint
             created == createIntersection(net, TruncDiv(p1.x + p2.x, 2), TruncDiv(p1.y + p2.y, 2))
             connected == connectRoad(connectRoad(created.network, created.id, road1Id, ~road1End),
                                      created.id, road2Id, ~road2End)
         IN  [network |-> [connected EXCEPT !.m_intersections[created.id].m_connections =
                              DefineAll(@, road1Id, Len(road1.m_lanes), road2Id, Len(road2.m_lanes), 0, 0)],
              id |-> created.id]

\* WasmRoadNetwork::connectWithIntersection: the network after the call and
\* the id returned
connectWithIntersection(net, road1Id, road1End, road2Id, road2End) ==
    IF ~hasRoadSegment(net, road1Id) \/ ~hasRoadSegment(net, road2Id)
    THEN [network |-> net, id |-> InvalidId]
    ELSE LET road1 == getRoadSegment(net, road1Id)
             road2 == getRoadSegment(net, road2Id)
             p1 == IF road1End THEN road1.m_endPoint ELSE road1.m_startPoint
             p2 == IF road2End THEN road2.m_endPoint ELSE road2.m_startPoint
             created == createIntersection(net, TruncDiv(p1.x + p2.x, 2), TruncDiv(p1.y + p2.y, 2))
             connected == connectRoad(connectRoad(created.network, created.id, road1Id, ~road1End),
                                      created.id, road2Id, ~road2End)
         IN  [network |-> [connected EXCEPT !.m_intersections[created.id].m_connections =
                              DefineAll(@, road1Id, Len(road1.m_lanes), road2Id, Len(road2.m_lanes), 0, 0)],
              id |-> created.id]

\* the distance findNearestRoadSegment computes from the point to a segment
SegmentDistance(road, x, y) ==
    LET start == road.m_startPoint
        end == road.m_endPoint
        roadVecX == FSub(end.x, start.x)
        roadVecY == FSub(end.y, start.y)
        roadLength == Hypot(roadVecX, roadVecY)
        roadDirX == FDiv(roadVecX, roadLength)
        roadDirY == FDiv(roadVecY, roadLength)
        projection == FAdd(FMul(FSub(x, start.x), roadDirX), FMul(FSub(y, start.y), roadDirY))
        projX == FAdd(start.x, FMul(roadDirX, projection))
        projY == FAdd(start.y, FMul(roadDirY, projection))
    IN  IF roadLength = 0 THEN Hypot(FSub(x, start.x), FSub(y, start.y))
        ELSE IF FLt(projection, 0) THEN Hypot(FSub(x, start.x), FSub(y, start.y))
        ELSE IF FGt(projection, roadLength) THEN Hypot(FSub(x, end.x), FSub(y, end.y))
        ELSE Hypot(FSub(x, projX), FSub(y, projY))

\* WasmRoadNetwork::findNearestRoadSegment: the ids the call can return.
\* The loop keeps the first segment of least distance below maxDistance; the
\* iteration order of the unordered_map is unspecified, so every segment of
\* least distance can be the one returned
findNearestRoadSegment(net, x, y, maxDistance) ==
    LET near == {id \in DOMAIN net.m_roadSegments :
                    FLt(SegmentDistance(net.m_roadSegments[id], x, y), maxDistance)}
        least == {id \in near : \A other \in near :
                    SegmentDistance(net.m_roadSegments[id], x, y)
                        <= SegmentDistance(net.m_roadSegments[other], x, y)}
    IN  IF near = {} THEN {InvalidId} ELSE least

\* WasmRoadNetwork::clear
networkClear(net) ==
    [net EXCEPT !.m_roadSegments = EmptyMap,
                !.m_intersections = EmptyMap,
                !.m_nextRoadId = 0,
                !.m_nextIntersectionId = 0]

(***************************************************************************)
(* The systems (WasmTrafficSimulation.cpp).                                *)
(***************************************************************************)

SeqToSet(s) == {s[k] : k \in 1 .. Len(s)}

\* a faulty body of the loop of movementSystem: the step ignores dt
MoveTransformIgnoringDt(t, dt) ==
    [t EXCEPT !.position = WasmVector2D(FAdd(t.position.x, t.velocity.x),
                                        FAdd(t.position.y, t.velocity.y))]

\* the body of the loop of movementSystem (the heading is advisory and not
\* modelled)
MoveTransform(t, dt) ==
    [t EXCEPT !.position = WasmVector2D(FAdd(t.position.x, FMul(t.velocity.x, dt)),
                                        FAdd(t.position.y, FMul(t.velocity.y, dt)))]

\* WasmTrafficSimulation::movementSystem
movementSystem(w, dt) ==
    LET entities == SeqToSet(getEntitiesWith(w, {Transform}))
    IN  [w EXCEPT !.m_componentPools[Transform] =
            [i \in EntityIds |-> IF i \in entities THEN MoveTransform(@[i], dt) ELSE @[i]]]

\* the ids the search loop of boundsSystem accepts: below getEntityCount(),
\* existing, with a Bounds component
BoundsHolders(w) ==
    {id \in EntityIds : id < getEntityCount(w) /\ hasComponent(w, id, Bounds)}

\* the id at which the search loop of boundsSystem breaks (the first one)
FindGlobalBounds(w) ==
    CHOOSE id \in BoundsHolders(w) : \A other \in BoundsHolders(w) : id <= other

\* a faulty bounce: the velocity is reversed without energy loss
BounceUndamped(v) == FNeg(v)

\* -v * 0.5f
Bounce(v) == FMul(FNeg(v), Half)

\* the two if / else-if chains of boundsSystem for one Transform
ClampTransform(t, b) ==
    LET px == t.position.x
        py == t.position.y
        x == IF FLt(px, 0) THEN 0 ELSE IF FGt(px, b.width) THEN b.width ELSE px
        vx == IF FLt(px, 0) \/ FGt(px, b.width) THEN Bounce(t.velocity.x) ELSE t.velocity.x
        y == IF FLt(py, 0) THEN 0 ELSE IF FGt(py, b.height) THEN b.height ELSE py
        vy == IF FLt(py, 0) \/ FGt(py, b.height) THEN Bounce(t.velocity.y) ELSE t.velocity.y
    IN  [t EXCEPT !.position = WasmVector2D(x, y), !.velocity = WasmVector2D(vx, vy)]

\* the Bounds pass acts: a global Bounds component is found and its flag is set
BoundsActive(w) ==
    /\ BoundsHolders(w) # {}
    /\ getComponent(w, FindGlobalBounds(w), Bounds).keepInBounds

\* WasmTrafficSimulation::boundsSystem
boundsSystem(w, dt) ==
    IF ~BoundsActive(w) THEN w
    ELSE LET globalBounds == getComponent(w, FindGlobalBounds(w), Bounds)
             entities == SeqToSet(getEntitiesWith(w, {Transform, Vehicle}))
         IN  [w EXCEPT !.m_componentPools[Transform] =
                 [i \in EntityIds |-> IF i \in entities THEN ClampTransform(@[i], globalBounds) ELSE @[i]]]

\* v * 0.9f
Damp(v) == IF IsNaN(v) THEN NaN ELSE TruncDiv(v * 9, 10)

\* the body of the pair loop of collisionSystem for the entities a and b
CollidePair(w, a, b) ==
    LET tA == getComponent(w, a, Transform)
        tB == getComponent(w, b, Transform)
        cA == getComponent(w, a, Collision)
        cB == getComponent(w, b, Collision)
        dx == FSub(tB.position.x, tA.position.x)
        dy == FSub(tB.position.y, tA.position.y)
        minDistance == FAdd(cA.radius, cB.radius)
        hit == ~IsNaN(dx) /\ ~IsNaN(dy) /\ dx * dx + dy * dy < minDistance * minDistance
        distance == Hypot(dx, dy)
        overlap == FSub(minDistance, distance)
        nx == FDiv(dx, distance)
        ny == FDiv(dy, distance)
        separationX == FMul(FMul(nx, overlap), Half)
        separationY == FMul(FMul(ny, overlap), Half)
        posA == WasmVector2D(FSub(tA.position.x, separationX), FSub(tA.position.y, separationY))
        posB == WasmVector2D(FAdd(tB.position.x, separationX), FAdd(tB.position.y, separationY))
        both == hasComponent(w, a, Vehicle) /\ hasComponent(w, b, Vehicle)
        velA == IF both THEN WasmVector2D(Damp(tB.velocity.x), Damp(tB.velocity.y)) ELSE tA.velocity
        velB == IF both THEN WasmVector2D(Damp(tA.velocity.x), Damp(tA.velocity.y)) ELSE tB.velocity
    IN  IF ~hit THEN w
        ELSE [w EXCEPT !.m_componentPools[Collision][a] =
                           [cA EXCEPT !.colliding = TRUE, !.collidingWith = Append(@, b)],
                       !.m_componentPools[Collision][b] =
                           [cB EXCEPT !.colliding = TRUE, !.collidingWith = Append(@, a)],
                       !.m_componentPools[Transform][a] = [position |-> posA, velocity |-> velA],
                       !.m_componentPools[Transform][b] = [position |-> posB, velocity |-> velB]]

RECURSIVE CollideLoop(_, _, _, _)
\* the nested loops over i and j = i + 1 .. of collisionSystem
CollideLoop(w, entities, i, j) ==
    IF i > Len(entities) THEN w
    ELSE IF j > Len(entities) THEN CollideLoop(w, entities, i + 1, i + 2)
    ELSE CollideLoop(CollidePair(w, entities[i], entities[j]), entities, i, j + 1)

\* the first loop of collisionSystem, leaving the lists as they were
ResetCollisionsKeepingLists(w, entities) ==
    [w EXCEPT !.m_componentPools[Collision] =
        [i \in EntityIds |-> IF i \in SeqToSet(entities)
                              THEN [@[i] EXCEPT !.colliding = FALSE]
                              ELSE @[i]]]

\* the first loop of collisionSystem
ResetCollisions(w, entities) ==
    [w EXCEPT !.m_componentPools[Collision] =
        [i \in EntityIds |-> IF i \in SeqToSet(entities)
                              THEN [@[i] EXCEPT !.colliding = FALSE, !.collidingWith = <<>>]
                              ELSE @[i]]]

\* WasmTrafficSimulation::collisionSystem
collisionSystem(w, dt) ==
    LET entities == getEntitiesWith(w, {Transform, Collision})
    IN  CollideLoop(ResetCollisions(w, entities), entities, 1, 2)

\* a faulty update: a Yellow signal turns Green, Red is left out of the cycle
SignalUpdateSkippingRed(s, dt) ==
    LET remaining == FRound(FSub(s.timeRemaining, dt))
    IN  IF ~FLe(remaining, 0) THEN [s EXCEPT !.timeRemaining = remaining]
        ELSE IF s.state = "Green" THEN [s EXCEPT !.state = "Yellow", !.timeRemaining = s.yellowDuration]
        ELSE IF s.state = "Yellow" THEN [s EXCEPT !.state = "Green", !.timeRemaining = s.greenDuration]
        ELSE [s EXCEPT !.state = "Green", !.timeRemaining = s.greenDuration]

\* a faulty update: the time by which dt overshoots the end of the phase is
\* taken off the timer of the next phase
SignalUpdateCarryingOvershoot(s, dt) ==
    LET remaining == FRound(FSub(s.timeRemaining, dt))
    IN  IF ~FLe(remaining, 0) THEN [s EXCEPT !.timeRemaining = remaining]
        ELSE IF s.state = "Green" THEN [s EXCEPT !.state = "Yellow", !.timeRemaining = FAdd(s.yellowDuration, remaining)]
        ELSE IF s.state = "Yellow" THEN [s EXCEPT !.state = "Red", !.timeRemaining = FAdd(s.redDuration, remaining)]
        ELSE [s EXCEPT !.state = "Green", !.timeRemaining = FAdd(s.greenDuration, remaining)]

\* a faulty update: the phase changes only when the time left is below zero
SignalUpdateBelowZero(s, dt) ==
    LET remaining == FRound(FSub(s.timeRemaining, dt))
    IN  IF IsNaN(remaining) \/ remaining >= 0 THEN [s EXCEPT !.timeRemaining = remaining]
        ELSE IF s.state = "Green" THEN [s EXCEPT !.state = "Yellow", !.timeRemaining = s.yellowDuration]
        ELSE IF s.state = "Yellow" THEN [s EXCEPT !.state = "Red", !.timeRemaining = s.redDuration]
        ELSE [s EXCEPT !.state = "Green", !.timeRemaining = s.greenDuration]

\* WasmTrafficSignalComponent::update
SignalUpdate(s, dt) ==
    LET remaining == FRound(FSub(s.timeRemaining, dt))
    IN  IF ~FLe(remaining, 0) THEN [s EXCEPT !.timeRemaining = remaining]
        ELSE IF s.state = "Green" THEN [s EXCEPT !.state = "Yellow", !.timeRemaining = s.yellowDuration]
        ELSE IF s.state = "Yellow" THEN [s EXCEPT !.state = "Red", !.timeRemaining = s.redDuration]
        ELSE [s EXCEPT !.state = "Green", !.timeRemaining = s.greenDuration]

\* WasmTrafficSimulation::trafficSignalSystem
trafficSignalSystem(w, dt) ==
    LET entities == SeqToSet(getEntitiesWith(w, {TrafficSignal}))
    IN  [w EXCEPT !.m_componentPools[TrafficSignal] =
            [i \in EntityIds |-> IF i \in entities THEN SignalUpdate(@[i], dt) ELSE @[i]]]

\* WasmPathFollowingComponent::hasReachedDestination
hasReachedDestination(p) == p.path = <<>> \/ p.currentPathIndex >= Len(p.path)

\* WasmPathFollowingComponent::calculateSteeringForce
calculateSteeringForce(currentPos, currentVel, targetPos, maxSpeed) ==
    LET dirX == FSub(targetPos.x, currentPos.x)
        dirY == FSub(targetPos.y, currentPos.y)
        distance == Hypot(dirX, dirY)
    IN  IF distance = 0 THEN WasmVector2D(0, 0)
        ELSE WasmVector2D(FSub(FMul(FDiv(dirX, distance), maxSpeed), currentVel.x),
                          FSub(FMul(FDiv(dirY, distance), maxSpeed), currentVel.y))

\* the steering part of the loop body of pathFollowingSystem (from "Get
\* target position" on) for one entity on the segment road
Steer(w, id, road, p, targetDistance, dt) ==
    LET transform == getComponent(w, id, Transform)
        vehicle == getComponent(w, id, Vehicle)
        targetPosition == getPointAtDistance(road, targetDistance)
        steeringForce == calculateSteeringForce(transform.position, transform.velocity,
                                                targetPosition, vehicle.maxSpeed)
        vx == FAdd(transform.velocity.x, FMul(steeringForce.x, dt))
        vy == FAdd(transform.velocity.y, FMul(steeringForce.y, dt))
        speed == Hypot(vx, vy)
        scale == FDiv(vehicle.maxSpeed, speed)
        velocity == IF FGt(speed, vehicle.maxSpeed)
                    THEN WasmVector2D(FMul(vx, scale), FMul(vy, scale))
                    ELSE WasmVector2D(vx, vy)
    IN  [w EXCEPT !.m_componentPools[Transform][id] = [transform EXCEPT !.velocity = velocity],
                  !.m_componentPools[Vehicle][id] =
                      [vehicle EXCEPT !.currentSpeed = speed, !.targetSpeed = vehicle.maxSpeed],
                  !.m_componentPools[PathFollowing][id] =
                      [p EXCEPT !.distanceAlongCurrentSegment = FAdd(@, FMul(speed, dt))]]

\* a faulty loop body: the end of a segment moves the cursor on by two
FollowPathSkippingOne(w, id, net, dt) ==
    LET vehicle == getComponent(w, id, Vehicle)
        pathFollowing == getComponent(w, id, PathFollowing)
        stopped == [w EXCEPT !.m_componentPools[Vehicle][id] = [vehicle EXCEPT !.targetSpeed = 0]]
        roadID == pathFollowing.path[pathFollowing.currentPathIndex + 1][1]
        lookAheadDistance == FAdd(FMul(vehicle.currentSpeed, Fx(2)), Fx(5))
        targetDistance == FAdd(pathFollowing.distanceAlongCurrentSegment, lookAheadDistance)
        advanced == [pathFollowing EXCEPT !.currentPathIndex = @ + 2]
        onNext == [advanced EXCEPT !.distanceAlongCurrentSegment = 0]
        nextRoadID == advanced.path[advanced.currentPathIndex + 1][1]
    IN  IF hasReachedDestination(pathFollowing) THEN stopped
        ELSE IF ~hasRoadSegment(net, roadID)
        THEN [w EXCEPT !.m_componentPools[PathFollowing][id] = advanced]
        ELSE IF FGt(targetDistance, getRoadSegment(net, roadID).m_length)
        THEN IF hasReachedDestination(advanced)
             THEN [stopped EXCEPT !.m_componentPools[PathFollowing][id] = advanced]
             ELSE IF ~hasRoadSegment(net, nextRoadID)
             THEN [w EXCEPT !.m_componentPools[PathFollowing][id] = onNext]
             ELSE Steer(w, id, getRoadSegment(net, nextRoadID), onNext, lookAheadDistance, dt)
        ELSE Steer(w, id, getRoadSegment(net, roadID), pathFollowing, targetDistance, dt)

\* the body of the loop of pathFollowingSystem for one entity
FollowPath(w, id, net, dt) ==
    LET vehicle == getComponent(w, id, Vehicle)
        pathFollowing == getComponent(w, id, PathFollowing)
        stopped == [w EXCEPT !.m_componentPools[Vehicle][id] = [vehicle EXCEPT !.targetSpeed = 0]]
        roadID == pathFollowing.path[pathFollowing.currentPathIndex + 1][1]
        lookAheadDistance == FAdd(FMul(vehicle.currentSpeed, Fx(2)), Fx(5))
        targetDistance == FAdd(pathFollowing.distanceAlongCurrentSegment, lookAheadDistance)
        advanced == [pathFollowing EXCEPT !.currentPathIndex = @ + 1]
        onNext == [advanced EXCEPT !.distanceAlongCurrentSegment = 0]
        nextRoadID == advanced.path[advanced.currentPathIndex + 1][1]
    IN  IF hasReachedDestination(pathFollowing) THEN stopped
        ELSE IF ~hasRoadSegment(net, roadID)
        THEN [w EXCEPT !.m_componentPools[PathFollowing][id] = advanced]
        ELSE IF FGt(targetDistance, getRoadSegment(net, roadID).m_length)
        THEN IF hasReachedDestination(advanced)
             THEN [stopped EXCEPT !.m_componentPools[PathFollowing][id] = advanced]
             ELSE IF ~hasRoadSegment(net, nextRoadID)
             THEN [w EXCEPT !.m_componentPools[PathFollowing][id] = onNext]
             ELSE Steer(w, id, getRoadSegment(net, nextRoadID), onNext, lookAheadDistance, dt)
        ELSE Steer(w, id, getRoadSegment(net, roadID), pathFollowing, targetDistance, dt)

RECURSIVE FollowAll(_, _, _, _)
\* the loop of pathFollowingSystem over the entities
FollowAll(w, entities, net, dt) ==
    IF entities = <<>> THEN w
    ELSE FollowAll(FollowPath(w, entities[1], net, dt), Tail(entities), net, dt)

\* WasmTrafficSimulation::pathFollowingSystem; net is the network the
\* pointer captured by the system designates now, or NoNetwork
pathFollowingSystem(w, dt, net) ==
    IF net = NoNetwork THEN w
    ELSE FollowAll(w, getEntitiesWith(w, {Transform, Vehicle, PathFollowing}), net, dt)

\* WasmSystemWrapper::createPathFollowingSystem
createPathFollowingSystem(roadNetwork) == [kind |-> "PathFollowing", roadNetwork |-> roadNetwork]

\* one registered system applied to the world (the std::function stored in
\* m_systems); nets gives the present state of every road network object,
\* through which the pointer captured by a path-following system is read
RunSystem(w, nets, system, dt) ==
    IF system.kind = "Movement" THEN movementSystem(w, dt)
    ELSE IF system.kind = "Bounds" THEN boundsSystem(w, dt)
    ELSE IF system.kind = "PathFollowing"
    THEN pathFollowingSystem(w, dt, IF system.roadNetwork = None THEN NoNetwork
                                    ELSE nets[system.roadNetwork])
    ELSE IF system.kind = "Collision" THEN collisionSystem(w, dt)
    ELSE trafficSignalSystem(w, dt)

RECURSIVE RunFrom(_, _, _, _)
\* the loop of WasmWorld::update from system k on: the worlds after each
\* system, in order
RunFrom(w, nets, k, dt) ==
    IF k > Len(w.m_systems) THEN <<>>
    ELSE CHOOSE stages \in {<<after>> \o RunFrom(after, nets, k + 1, dt) :
                              after \in {RunSystem(w, nets, w.m_systems[k], dt)}} : TRUE

\* WasmWorld::update: the world after the last system
worldUpdate(w, nets, dt) ==
    IF w.m_systems = <<>> THEN w ELSE RunFrom(w, nets, 1, dt)[Len(w.m_systems)]

\* WasmTrafficSimulation::setupSystems
setupSystems(w) ==
    registerSystem(registerSystem(registerSystem(registerSystem(w,
        [kind |-> "Movement"]), [kind |-> "Bounds"]), [kind |-> "Collision"]), [kind |-> "SignalTiming"])

(***************************************************************************)
(* Pathfinding (WasmTrafficSimulation::findPath).                          *)
(***************************************************************************)
\* the midpoint of a segment, as findPath computes it
Midpoint(road) ==
    WasmVector2D(FDiv(FAdd(road.m_startPoint.x, road.m_endPoint.x), Fx(2)),
                 FDiv(FAdd(road.m_startPoint.y, road.m_endPoint.y), Fx(2)))

\* the lambda heuristic of findPath
heuristic(road, endMidpoint) ==
    Hypot(FSub(Midpoint(road).x, endMidpoint.x), FSub(Midpoint(road).y, endMidpoint.y))

\* a faulty neighbour test: every segment is a neighbour
SharesAnything(road, neighbor) == TRUE

\* the neighbour test of findPath: the two segments share an intersection
SharesIntersection(road, neighbor) ==
    \/ road.m_startIntersection # nullptr /\ road.m_startIntersection = neighbor.m_startIntersection
    \/ road.m_startIntersection # nullptr /\ road.m_startIntersection = neighbor.m_endIntersection
    \/ road.m_endIntersection # nullptr /\ road.m_endIntersection = neighbor.m_startIntersection
    \/ road.m_endIntersection # nullptr /\ road.m_endIntersection = neighbor.m_endIntersection

\* struct Node of findPath
Node(roadId, gScore, fScore, parent) ==
    [roadId |-> roadId, gScore |-> gScore, fScore |-> fScore, parent |-> parent]

\* the body of the neighbour loop of findPath for one neighborId; st holds
\* openSet, gScores, closedSet and nodeMap
VisitNeighbor(net, st, currentId, neighborId, endMidpoint) ==
    LET road == getRoadSegment(net, currentId)
        neighbor == getRoadSegment(net, neighborId)
        tentativeGScore == st.gScores[currentId] + road.m_length
        node == Node(neighborId, tentativeGScore,
                     tentativeGScore + heuristic(neighbor, endMidpoint), currentId)
    IN  IF neighborId = currentId \/ ~hasRoadSegment(net, neighborId) THEN st
        ELSE IF ~SharesIntersection(road, neighbor) THEN st
        ELSE IF neighborId \in st.closedSet THEN st
        ELSE IF neighborId \in DOMAIN st.gScores /\ tentativeGScore >= st.gScores[neighborId] THEN st
        ELSE [st EXCEPT !.nodeMap = Put(@, neighborId, node),
                        !.gScores = Put(@, neighborId, tentativeGScore),
                        !.openSet = @ \cup {node}]

RECURSIVE VisitNeighbors(_, _, _, _, _)
\* the neighbour loop of findPath from neighborId on, up to
\* NeighborScanLimit - 1: the loop body is passed over for the ids the body
\* leaves at its first three tests (the segment itself, no such segment, no
\* shared intersection), and applied to the others in ascending order
VisitNeighbors(net, st, currentId, neighborId, endMidpoint) ==
    LET road == getRoadSegment(net, currentId)
        rest == {id \in DOMAIN net.m_roadSegments :
                    /\ id >= neighborId /\ id < NeighborScanLimit
                    /\ id # currentId
                    /\ SharesIntersection(road, getRoadSegment(net, id))}
        next == CHOOSE id \in rest : \A other \in rest : id <= other
    IN  IF rest = {} THEN st
        ELSE VisitNeighbors(net, VisitNeighbor(net, st, currentId, next, endMidpoint),
                            currentId, next + 1, endMidpoint)

RECURSIVE ReconstructPath(_, _)
\* the reconstruction loop of findPath, reversed
ReconstructPath(nodeMap, roadId) ==
    IF nodeMap[roadId].parent = nullptr THEN << <<roadId, 0>> >>
    ELSE Append(ReconstructPath(nodeMap, nodeMap[roadId].parent), <<roadId, 0>>)

RECURSIVE AStar(_, _, _, _)
\* the A* loop of findPath and the reconstruction: the paths the call can
\* return.  Which of several nodes of least fScore the priority queue
\* yields is not specified, so each of them can be the next node
AStar(net, st, endRoadId, endMidpoint) ==
    IF st.openSet = {} THEN {<<>>}
    ELSE UNION {
        LET popped == [st EXCEPT !.openSet = @ \ {current}]
            closed == [popped EXCEPT !.closedSet = @ \cup {current.roadId}]
        IN  IF current.roadId \in st.closedSet THEN AStar(net, popped, endRoadId, endMidpoint)
            ELSE IF current.roadId = endRoadId THEN {ReconstructPath(st.nodeMap, endRoadId)}
            ELSE IF ~hasRoadSegment(net, current.roadId) THEN AStar(net, closed, endRoadId, endMidpoint)
            ELSE AStar(net, VisitNeighbors(net, closed, current.roadId, 0, endMidpoint),
                       endRoadId, endMidpoint)
        : current \in {n \in st.openSet : \A other \in st.openSet : n.fScore <= other.fScore}}

\* findPath once the two nearest segments are known
findPathBetween(net, startRoadId, endRoadId) ==
    IF startRoadId = InvalidId \/ endRoadId = InvalidId THEN {<<>>}
    ELSE IF startRoadId = endRoadId THEN {<< <<startRoadId, 0>> >>}
    ELSE LET endMidpoint == Midpoint(getRoadSegment(net, endRoadId))
             startNode == Node(startRoadId, 0, heuristic(getRoadSegment(net, startRoadId), endMidpoint), nullptr)
         IN  AStar(net,
                   [openSet |-> {startNode},
                    gScores |-> Put(EmptyMap, startRoadId, 0),
                    closedSet |-> {},
                    nodeMap |-> Put(EmptyMap, startRoadId, startNode)],
                   endRoadId, endMidpoint)

\* WasmTrafficSimulation::findPath: the paths the call can return; net is
\* the attached network or NoNetwork
findPath(net, startX, startY, endX, endY) ==
    IF net = NoNetwork THEN {<<>>}
    ELSE UNION {findPathBetween(net, startRoadId, endRoadId) :
                  startRoadId \in findNearestRoadSegment(net, startX, startY, DefaultMaxDistance),
                  endRoadId \in findNearestRoadSegment(net, endX, endY, DefaultMaxDistance)}

(***************************************************************************)
(* The core facade TrafficSimulation over World (TrafficSimulation.cpp,    *)
(* core/Entity.h, Components.h).  A World is the sequence of its entities  *)
(* in the order of their ids, from 0; an entity is the function from the   *)
(* component types set in its mask to its components.                      *)
(***************************************************************************)
\* World::World
NewCoreWorld == [m_entities |-> <<>>]

\* World::createEntity followed by the addComponent calls that give the new
\* entity the components of the function components (no entity is destroyed
\* by the facade, so m_freeIDs is empty)
coreCreateEntity(w, components) == [m_entities |-> Append(w.m_entities, components)]

\* World::getEntitiesWith<types...>: the ids in ascending order, from 0
coreGetEntitiesWith(w, types) ==
    {id \in 0 .. (Len(w.m_entities) - 1) : types \subseteq DOMAIN w.m_entities[id + 1]}

\* BoundsComponent::BoundsComponent
BoundsComponent(width, height) == [width |-> width, height |-> height, keepEntitiesInBounds |-> TRUE]

\* TransformComponent::TransformComponent
TransformComponent(position, velocity) == [position |-> position, velocity |-> velocity]

\* VehicleComponent::VehicleComponent with its default arguments
VehicleComponent ==
    [maxSpeed |-> Fx(100), acceleration |-> Fx(20), brakingForce |-> Fx(40), mass |-> Fx(1000),
     length |-> (9 * Scale) \div 2, width |-> Fx(2), currentSpeed |-> 0, targetSpeed |-> 0]

\* Vector2D::normalized: the zero vector when the length is below 0.0001
normalized(v) ==
    LET len == Hypot(v.x, v.y)
    IN  IF ~IsNaN(len) /\ len * 10000 < Scale THEN WasmVector2D(0, 0)
        ELSE WasmVector2D(FDiv(v.x, len), FDiv(v.y, len))

\* the speed after the first part of VehicleComponent::update
SpeedTowardsTarget(vehicle, dt) ==
    IF FLt(vehicle.currentSpeed, vehicle.targetSpeed)
    THEN LET faster == FAdd(vehicle.currentSpeed, FMul(vehicle.acceleration, dt))
         IN  IF FGt(faster, vehicle.targetSpeed) THEN vehicle.targetSpeed ELSE faster
    ELSE IF FGt(vehicle.currentSpeed, vehicle.targetSpeed)
    THEN LET slower == FSub(vehicle.currentSpeed, FMul(vehicle.brakingForce, dt))
         IN  IF FLt(slower, vehicle.targetSpeed) THEN vehicle.targetSpeed ELSE slower
    ELSE vehicle.currentSpeed

\* VehicleComponent::update(dt, transform) on an entity that holds both
\* components: the entity after the call
vehicleUpdate(entity, dt) ==
    LET currentSpeed == SpeedTowardsTarget(entity.Vehicle, dt)
        direction == normalized(entity.Transform.velocity)
    IN  [entity EXCEPT !.Vehicle.currentSpeed = currentSpeed,
                       !.Transform.velocity = WasmVector2D(FMul(direction.x, currentSpeed),
                                                           FMul(direction.y, currentSpeed))]

\* TransformComponent::update
transformUpdate(transform, dt) ==
    [transform EXCEPT !.position = WasmVector2D(FAdd(@.x, FMul(transform.velocity.x, dt)),
                                                FAdd(@.y, FMul(transform.velocity.y, dt)))]

\* TransformComponent::keepInBounds
transformKeepInBounds(transform, width, height) ==
    LET p == transform.position
        v == transform.velocity
        x == IF FLt(p.x, 0) THEN 0 ELSE IF FGt(p.x, width) THEN width ELSE p.x
        y == IF FLt(p.y, 0) THEN 0 ELSE IF FGt(p.y, height) THEN height ELSE p.y
        vx == IF FLt(p.x, 0) \/ FGt(p.x, width) THEN FNeg(v.x) ELSE v.x
        vy == IF FLt(p.y, 0) \/ FGt(p.y, height) THEN FNeg(v.y) ELSE v.y
    IN  TransformComponent(WasmVector2D(x, y), WasmVector2D(vx, vy))

\* TrafficSimulation::updateVehicleTransforms
updateVehicleTransforms(w, dt) ==
    [m_entities |->
        [k \in 1 .. Len(w.m_entities) |->
            IF (k - 1) \in coreGetEntitiesWith(w, {Transform, Vehicle})
            THEN LET updated == vehicleUpdate(w.m_entities[k], dt)
                 IN  [updated EXCEPT !.Transform = transformUpdate(@, dt)]
            ELSE w.m_entities[k]]]

\* TrafficSimulation::handleBounds
handleBounds(w, width, height) ==
    [m_entities |->
        [k \in 1 .. Len(w.m_entities) |->
            IF (k - 1) \in coreGetEntitiesWith(w, {Transform})
            THEN [w.m_entities[k] EXCEPT !.Transform = transformKeepInBounds(@, width, height)]
            ELSE w.m_entities[k]]]

\* TrafficSimulation::TrafficSimulation
NewTrafficSimulation ==
    [m_world |-> NewCoreWorld, m_width |-> 0, m_height |-> 0, m_keepInBounds |-> TRUE,
     m_nextSimID |-> 0, m_initialized |-> FALSE,
     m_entityToSimID |-> EmptyMap, m_simIDToEntity |-> EmptyMap]

\* TrafficSimulation::initialize
coreInitialize(sim, width, height) ==
    [sim EXCEPT !.m_width = width, !.m_height = height, !.m_initialized = TRUE,
                !.m_world = coreCreateEntity(@, [c \in {Bounds} |-> BoundsComponent(width, height)])]

\* TrafficSimulation::createVehicle: the object after the call and the id
\* returned
coreCreateVehicle(sim, x, y, vx, vy) ==
    IF ~sim.m_initialized THEN [simulation |-> sim, simID |-> -1]
    ELSE LET id == Len(sim.m_world.m_entities)
             components == [c \in {Transform, Vehicle} |->
                               IF c = Transform
                               THEN TransformComponent(WasmVector2D(x, y), WasmVector2D(vx, vy))
                               ELSE VehicleComponent]
         IN  [simulation |-> [sim EXCEPT !.m_world = coreCreateEntity(@, components),
                                         !.m_nextSimID = @ + 1,
                                         !.m_entityToSimID = Put(@, id, sim.m_nextSimID),
                                         !.m_simIDToEntity = Put(@, sim.m_nextSimID, id)],
              simID |-> sim.m_nextSimID]

\* World::entityExists
coreEntityExists(w, id) == id < Len(w.m_entities) /\ DOMAIN w.m_entities[id + 1] # {}

\* TrafficSimulation::getVehiclePosition
coreGetVehiclePosition(sim, id) ==
    IF ~sim.m_initialized \/ id \notin DOMAIN sim.m_simIDToEntity THEN WasmVector2D(0, 0)
    ELSE IF ~coreEntityExists(sim.m_world, sim.m_simIDToEntity[id]) THEN WasmVector2D(0, 0)
    ELSE IF Transform \notin DOMAIN sim.m_world.m_entities[sim.m_simIDToEntity[id] + 1] THEN WasmVector2D(0, 0)
    ELSE sim.m_world.m_entities[sim.m_simIDToEntity[id] + 1].Transform.position

\* TrafficSimulation::getVehicleVelocity
coreGetVehicleVelocity(sim, id) ==
    IF ~sim.m_initialized \/ id \notin DOMAIN sim.m_simIDToEntity THEN WasmVector2D(0, 0)
    ELSE IF ~coreEntityExists(sim.m_world, sim.m_simIDToEntity[id]) THEN WasmVector2D(0, 0)
    ELSE IF Transform \notin DOMAIN sim.m_world.m_entities[sim.m_simIDToEntity[id] + 1] THEN WasmVector2D(0, 0)
    ELSE sim.m_world.m_entities[sim.m_simIDToEntity[id] + 1].Transform.velocity

\* TrafficSimulation::update (World::update does nothing)
coreUpdate(sim, dt) ==
    IF ~sim.m_initialized THEN sim
    ELSE LET moved == updateVehicleTransforms(sim.m_world, dt)
         IN  [sim EXCEPT !.m_world = IF sim.m_keepInBounds
                                     THEN handleBounds(moved, sim.m_width, sim.m_height)
                                     ELSE moved]

\* TrafficSimulation::clear
coreClear(sim) ==
    IF ~sim.m_initialized THEN sim
    ELSE coreInitialize([sim EXCEPT !.m_world = NewCoreWorld, !.m_entityToSimID = EmptyMap,
                                    !.m_simIDToEntity = EmptyMap, !.m_nextSimID = 0],
                        sim.m_width, sim.m_height)

(***************************************************************************)
(* The facade WasmTrafficSimulation.                                       *)
(***************************************************************************)
VARIABLES
    m_world,          \* the WasmWorld owned by the facade
    m_roadNetwork,    \* the attached road network, or None
    m_width,
    m_height,
    m_keepInBounds,
    ndebug,           \* the build: TRUE when assert() is compiled out
    trapped,          \* an assertion has failed and aborted the program
    ticks,            \* number of update() calls made
    lastCall,         \* the last call made on the facade, with what it returned
    networks,         \* the road network objects of the caller, by name
    m_vehicles,       \* the vehicle slots of the simplified facade
    m_nextId,         \* the next slot index the simplified facade appends
    simulation        \* the TrafficSimulation object of the core facade

vars == <<m_world, m_roadNetwork, m_width, m_height, m_keepInBounds, ndebug, trapped, ticks,
          lastCall, networks, m_vehicles, m_nextId, simulation>>

\* the inputs the calls are made with
Sizes == {<<Fx(100), Fx(100)>>, <<Fx(60), Fx(40)>>}
VehicleInputs ==
    {<<Fx(95), Fx(50), Fx(50), 0>>,
     <<0, 0, Fx(10), 0>>,
     <<Fx(12), Fx(1), -Fx(2), -Fx(2)>>,
     <<Fx(7), Fx(2), -Fx(10), -Fx(40)>>}
DtValues == {Fx(1), Half}
\* the inputs of the calls made with a road network at hand
RoadVehicleInputs == {<<Fx(95), Fx(50), Fx(50), 0>>}
RoadDtValues == {Fx(1)}
PathRequests ==
    {<<Fx(10), Fx(50), Fx(90), Fx(50)>>,
     <<Fx(200), Fx(200), Fx(10), Fx(50)>>}
\* the road networks the caller builds, and those it attaches
NetworkNames == {"netA", "netB", "netC"}
RoadNetworkInputs == {"netA", "netB"}

\* netA: one segment along y = 50
NetA == createRoadSegment(NewNetwork, 0, Fx(50), Fx(100), Fx(50)).network

\* netB: two segments joined by an intersection, end of 0 to start of 1
NetB ==
    LET first == createRoadSegment(NewNetwork, 0, Fx(30), Fx(60), Fx(30))
        second == createRoadSegment(first.network, Fx(60), Fx(30), Fx(60), Fx(90))
    IN  connectWithIntersection(second.network, first.id, TRUE, second.id, FALSE).network

\* netC is the network the caller edits while the program runs
EditedNetwork == "netC"

\* the road networks the caller has built before the first call
BuiltNetworks ==
    [name \in NetworkNames |->
        IF name = "netA" THEN NetA ELSE IF name = "netB" THEN NetB ELSE NewNetwork]

RECURSIVE AddAll(_, _, _)
\* a run of addComponent calls on one entity: the world after them and
\* whether every assertion held
AddAll(w, id, comps) ==
    IF comps = <<>> THEN [world |-> w, asserted |-> TRUE]
    ELSE LET rest == AddAll(addComponent(w, id, comps[1][1], comps[1][2]), id, Tail(comps))
         IN  [world |-> rest.world, asserted |-> AddAsserts(w, id) /\ rest.asserted]

\* WasmTrafficSimulation::getVehicleCount
getVehicleCount(w) ==
    Cardinality({id \in EntityIds : /\ id < getEntityCount(w)
                                     /\ entityExists(w, id)
                                     /\ hasComponent(w, id, Transform)
                                     /\ hasComponent(w, id, Vehicle)})

\* WasmTrafficSimulation::getVehiclePosition
getVehiclePosition(w, id) ==
    IF entityExists(w, id) /\ hasComponent(w, id, Transform)
    THEN getComponent(w, id, Transform).position
    ELSE WasmVector2D(0, 0)

\* WasmTrafficSimulation::getVehicleVelocity
getVehicleVelocity(w, id) ==
    IF entityExists(w, id) /\ hasComponent(w, id, Transform)
    THEN getComponent(w, id, Transform).velocity
    ELSE WasmVector2D(0, 0)

\* WasmTrafficSimulation::WasmTrafficSimulation, in either build
Init ==
    /\ m_world = setupSystems(NewWorld)
    /\ m_roadNetwork = None
    /\ m_width = Fx(800)
    /\ m_height = Fx(600)
    /\ m_keepInBounds = TRUE
    /\ ndebug \in BOOLEAN
    /\ trapped = FALSE
    /\ ticks = 0
    /\ lastCall = [op |-> "construct"]
    /\ networks = BuiltNetworks
    /\ m_vehicles = <<>>
    /\ m_nextId = 0
    /\ simulation = NewTrafficSimulation

\* a failed assert() aborts the program: nothing is callable afterwards
Trap(call) ==
    /\ trapped' = TRUE
    /\ lastCall' = call
    /\ UNCHANGED <<m_world, m_roadNetwork, m_width, m_height, m_keepInBounds, ndebug, ticks, networks, m_vehicles, m_nextId, simulation>>

\* WasmTrafficSimulation::initialize
Initialize(width, height) ==
    /\ ~trapped
    /\ Len(m_world.m_entities) < MaxEntities
    /\ LET created == createEntity(m_world)
           added == AddAll(created.world, created.id,
                           <<(<<Bounds, WasmBoundsComponent(width, height)>>)>>)
           call == [op |-> "initialize", width |-> width, height |-> height]
       IN  IF ~ndebug /\ ~added.asserted THEN Trap(call)
           ELSE /\ m_world' = added.world
                /\ m_width' = width
                /\ m_height' = height
                /\ lastCall' = call
                /\ UNCHANGED <<m_roadNetwork, m_keepInBounds, ndebug, trapped, ticks, networks, m_vehicles, m_nextId, simulation>>

\* WasmTrafficSimulation::createVehicle
CreateVehicle(x, y, vx, vy) ==
    /\ ~trapped
    /\ Len(m_world.m_entities) < MaxEntities
    /\ LET created == createEntity(m_world)
           added == AddAll(created.world, created.id,
                           <<(<<Transform, WasmTransformComponent(WasmVector2D(x, y), WasmVector2D(vx, vy))>>),
                             (<<Vehicle, WasmVehicleComponent>>),
                             (<<Collision, WasmCollisionComponent(VehicleRadius)>>),
                             (<<Renderable, WasmRenderableComponent>>)>>)
           call == [op |-> "createVehicle", x |-> x, y |-> y, vx |-> vx, vy |-> vy,
                    id |-> created.id]
       IN  IF ~ndebug /\ ~added.asserted THEN Trap(call)
           ELSE /\ m_world' = added.world
                /\ lastCall' = call
                /\ UNCHANGED <<m_roadNetwork, m_width, m_height, m_keepInBounds, ndebug, trapped, ticks, networks, m_vehicles, m_nextId, simulation>>

\* WasmTrafficSimulation::update
Update(dt) ==
    /\ ~trapped
    /\ ticks < MaxTicks
    /\ m_world' = worldUpdate(m_world, networks, dt)
    /\ ticks' = ticks + 1
    /\ lastCall' = [op |-> "update", dt |-> dt,
                    order |-> [k \in 1 .. Len(m_world.m_systems) |-> m_world.m_systems[k].kind],
                    stages |-> RunFrom(m_world, networks, 1, dt)]
    /\ UNCHANGED <<m_roadNetwork, m_width, m_height, m_keepInBounds, ndebug, trapped, networks, m_vehicles, m_nextId, simulation>>

\* the loop of setKeepInBounds over the ids below getEntityCount()
SetBoundsFlags(w, keepInBounds) ==
    [w EXCEPT !.m_componentPools[Bounds] =
        [id \in EntityIds |->
            IF id < getEntityCount(w) /\ entityExists(w, id) /\ hasComponent(w, id, Bounds)
            THEN [@[id] EXCEPT !.keepInBounds = keepInBounds]
            ELSE @[id]]]

\* WasmTrafficSimulation::setKeepInBounds
SetKeepInBounds(keepInBounds) ==
    /\ ~trapped
    /\ m_keepInBounds' = keepInBounds
    /\ m_world' = SetBoundsFlags(m_world, keepInBounds)
    /\ lastCall' = [op |-> "setKeepInBounds", keepInBounds |-> keepInBounds]
    /\ UNCHANGED <<m_roadNetwork, m_width, m_height, ndebug, trapped, ticks, networks, m_vehicles, m_nextId, simulation>>

RECURSIVE ClearLoop(_, _)
\* the loop of clear(): id runs while id < getEntityCount(), which every
\* destroyEntity lowers
ClearLoop(w, id) ==
    IF id < getEntityCount(w)
    THEN ClearLoop(IF entityExists(w, id) THEN destroyEntity(w, id) ELSE w, id + 1)
    ELSE w

\* WasmTrafficSimulation::clear
Clear ==
    /\ ~trapped
    /\ m_world' = ClearLoop(m_world, 0)
    /\ lastCall' = [op |-> "clear"]
    /\ UNCHANGED <<m_roadNetwork, m_width, m_height, m_keepInBounds, ndebug, trapped, ticks, networks, m_vehicles, m_nextId, simulation>>

RECURSIVE CreateMany(_, _)
\* the first loop of reserveVehicles: the world and the ids created
CreateMany(w, count) ==
    IF count = 0 THEN [world |-> w, ids |-> <<>>]
    ELSE LET created == createEntity(w)
             rest == CreateMany(created.world, count - 1)
         IN  [world |-> rest.world, ids |-> <<created.id>> \o rest.ids]

RECURSIVE DestroyMany(_, _)
\* the second loop of reserveVehicles
DestroyMany(w, ids) ==
    IF ids = <<>> THEN w ELSE DestroyMany(destroyEntity(w, ids[1]), Tail(ids))

\* WasmTrafficSimulation::reserveVehicles
ReserveVehicles(count) ==
    /\ ~trapped
    /\ Len(m_world.m_entities) + count <= MaxEntities
    /\ LET created == CreateMany(m_world, count)
       IN  m_world' = DestroyMany(created.world, created.ids)
    /\ lastCall' = [op |-> "reserveVehicles", count |-> count]
    /\ UNCHANGED <<m_roadNetwork, m_width, m_height, m_keepInBounds, ndebug, trapped, ticks, networks, m_vehicles, m_nextId, simulation>>

\* WasmTrafficSimulation::setRoadNetwork
SetRoadNetwork(roadNetwork) ==
    /\ ~trapped
    /\ Len(m_world.m_systems) < MaxSystems
    /\ m_roadNetwork' = roadNetwork
    /\ m_world' = registerSystem(m_world, createPathFollowingSystem(roadNetwork))
    /\ lastCall' = [op |-> "setRoadNetwork", roadNetwork |-> roadNetwork]
    /\ UNCHANGED <<m_width, m_height, m_keepInBounds, ndebug, trapped, ticks, networks, m_vehicles, m_nextId, simulation>>

\* WasmPathFollowingComponent::setPath
setPath(p, newPath) ==
    [p EXCEPT !.path = newPath, !.currentPathIndex = 0, !.distanceAlongCurrentSegment = 0]

\* createPath from "Add a path following component" on, for a path found
AssignPath(w, vehicleId, path) ==
    LET withComponent == IF ~hasComponent(w, vehicleId, PathFollowing)
                         THEN addComponent(w, vehicleId, PathFollowing, WasmPathFollowingComponent)
                         ELSE w
    IN  [withComponent EXCEPT !.m_componentPools[PathFollowing][vehicleId] = setPath(@, path)]

\* a faulty createPath: the path found is assigned even when it is empty
PathAssignedEvenIfEmpty(w, vehicleId, path) == AssignPath(w, vehicleId, path)

\* createPath from "if (path.empty())" on: the world after the call
PathAssigned(w, vehicleId, path) ==
    IF path = <<>> THEN w ELSE AssignPath(w, vehicleId, path)

\* WasmTrafficSimulation::createPath; lastCall.path is what findPath returned
\* (empty when findPath was not called)
CreatePath(vehicleId, startX, startY, endX, endY) ==
    /\ ~trapped
    /\ LET call == [op |-> "createPath", vehicleId |-> vehicleId,
                    startX |-> startX, startY |-> startY, endX |-> endX, endY |-> endY]
       IN  IF m_roadNetwork = None \/ ~entityExists(m_world, vehicleId)
           THEN /\ m_world' = m_world
                /\ lastCall' = call @@ [result |-> FALSE, path |-> <<>>]
           ELSE \E path \in findPath(networks[m_roadNetwork], startX, startY, endX, endY) :
                /\ m_world' = PathAssigned(m_world, vehicleId, path)
                /\ lastCall' = call @@ [result |-> path # <<>>, path |-> path]
    /\ UNCHANGED <<m_roadNetwork, m_width, m_height, m_keepInBounds, ndebug, trapped, ticks, networks, m_vehicles, m_nextId, simulation>>

\* the facade driven without a road network
Next ==
    \/ \E size \in Sizes : Initialize(size[1], size[2])
    \/ \E v \in VehicleInputs : CreateVehicle(v[1], v[2], v[3], v[4])
    \/ \E dt \in DtValues : Update(dt)
    \/ \E b \in BOOLEAN : SetKeepInBounds(b)
    \/ Clear
    \/ \E count \in 1 .. MaxReserve : ReserveVehicles(count)

Spec == Init /\ [][Next]_vars

\* WasmTrafficSimulation::createVehicle, called while fewer than
\* MaxRoadEntities entities have been created
CreateRoadVehicle(x, y, vx, vy) ==
    /\ Len(m_world.m_entities) < MaxRoadEntities
    /\ CreateVehicle(x, y, vx, vy)

\* the facade driven with road networks
NextRoad ==
    \/ \E v \in RoadVehicleInputs : CreateRoadVehicle(v[1], v[2], v[3], v[4])
    \/ \E dt \in RoadDtValues : Update(dt)
    \/ \E roadNetwork \in RoadNetworkInputs : SetRoadNetwork(roadNetwork)
    \/ \E vehicleId \in CallerIds, r \in PathRequests : CreatePath(vehicleId, r[1], r[2], r[3], r[4])

SpecRoad == Init /\ [][NextRoad]_vars

\* update steps other than one second, for the steering of a vehicle
SteerDtValues == {Half, Fx(2)}

\* the facade driven with road networks and steps of half a second and of
\* two seconds
NextSteer ==
    \/ \E v \in RoadVehicleInputs : CreateRoadVehicle(v[1], v[2], v[3], v[4])
    \/ \E dt \in SteerDtValues : Update(dt)
    \/ \E roadNetwork \in RoadNetworkInputs : SetRoadNetwork(roadNetwork)
    \/ \E vehicleId \in CallerIds, r \in PathRequests : CreatePath(vehicleId, r[1], r[2], r[3], r[4])

SpecSteer == Init /\ [][NextSteer]_vars

(***************************************************************************)
(* The entity store WasmWorld driven directly.  m_world is the store; the  *)
(* variables of the facade keep their initial values.  lastCall.round      *)
(* follows the calls through a round of creations, destructions of the     *)
(* identifiers created, and creations again.                               *)
(***************************************************************************)
\* the component types attached in the direct calls
WorldComponentTypes == {Transform, Vehicle}

\* the component addComponent<T> constructs for type c
DefaultComponent(c) ==
    IF c = Transform THEN WasmTransformComponent(WasmVector2D(0, 0), WasmVector2D(0, 0))
    ELSE WasmVehicleComponent

\* no call of a round made yet
NoRound == [first |-> {}, destroyed |-> {}, second |-> {}]

\* the round after createEntity returned id: the call belongs to the first
\* phase while nothing is destroyed, to the second phase once every
\* identifier of the first phase is destroyed; otherwise it opens a round
RoundAfterCreate(round, id) ==
    IF round.destroyed = {} THEN [round EXCEPT !.first = @ \cup {id}]
    ELSE IF round.destroyed = round.first /\ Cardinality(round.second) < Cardinality(round.first)
    THEN [round EXCEPT !.second = @ \cup {id}]
    ELSE [NoRound EXCEPT !.first = {id}]

\* the round after destroyEntity(id): the call belongs to the destroy phase
\* when id was created in the first phase; otherwise the round is over
RoundAfterDestroy(round, id) ==
    IF id \in round.first /\ round.second = {} THEN [round EXCEPT !.destroyed = @ \cup {id}]
    ELSE NoRound

\* the round after addComponent or removeComponent: the entities of the
\* first phase may be given components; once a destruction is made, a
\* component call ends the round
RoundAfterComponent(round) == IF round.destroyed = {} THEN round ELSE NoRound

\* WasmWorld::WasmWorld, in either build
InitWorld ==
    /\ m_world = NewWorld
    /\ m_roadNetwork = None
    /\ m_width = Fx(800)
    /\ m_height = Fx(600)
    /\ m_keepInBounds = TRUE
    /\ ndebug \in BOOLEAN
    /\ trapped = FALSE
    /\ ticks = 0
    /\ lastCall = [op |-> "construct", round |-> NoRound]
    /\ networks = BuiltNetworks
    /\ m_vehicles = <<>>
    /\ m_nextId = 0
    /\ simulation = NewTrafficSimulation

\* the variables the direct calls leave alone
WorldFrame == UNCHANGED <<m_roadNetwork, m_width, m_height, m_keepInBounds, ndebug, ticks, networks, m_vehicles, m_nextId, simulation>>

\* the identifiers createEntity has returned and destroyEntity has not freed
HandedOut(w) == {id \in EntityIds : id < Len(w.m_entities)} \ SeqToSet(w.m_freeEntities)

\* a call of WasmWorld::createEntity
WorldCreateEntity ==
    /\ ~trapped
    /\ m_world.m_freeEntities # <<>> \/ Len(m_world.m_entities) < MaxEntities
    /\ LET created == createEntity(m_world)
       IN  /\ m_world' = created.world
           /\ lastCall' = [op |-> "createEntity", id |-> created.id,
                           round |-> RoundAfterCreate(lastCall.round, created.id)]
    /\ UNCHANGED trapped
    /\ WorldFrame

\* a call of WasmWorld::destroyEntity
WorldDestroyEntity(id) ==
    /\ ~trapped
    /\ m_world' = destroyEntity(m_world, id)
    /\ lastCall' = [op |-> "destroyEntity", id |-> id, round |-> RoundAfterDestroy(lastCall.round, id)]
    /\ UNCHANGED trapped
    /\ WorldFrame

\* a call of WasmWorld::addComponent<T> on an identifier handed out: the
\* assertion aborts the build that keeps it
WorldAddComponent(id, c) ==
    /\ ~trapped
    /\ id \in HandedOut(m_world)
    /\ lastCall' = [op |-> "addComponent", id |-> id, component |-> c,
                    round |-> RoundAfterComponent(lastCall.round)]
    /\ IF ~ndebug /\ ~AddAsserts(m_world, id)
       THEN trapped' = TRUE /\ m_world' = m_world
       ELSE UNCHANGED trapped /\ m_world' = addComponent(m_world, id, c, DefaultComponent(c))
    /\ WorldFrame

\* a call of WasmWorld::removeComponent<T>
WorldRemoveComponent(id, c) ==
    /\ ~trapped
    /\ m_world' = removeComponent(m_world, id, c)
    /\ lastCall' = [op |-> "removeComponent", id |-> id, component |-> c,
                    had |-> hasComponent(m_world, id, c),
                    round |-> RoundAfterComponent(lastCall.round)]
    /\ UNCHANGED trapped
    /\ WorldFrame

\* a call of WasmWorld::getEntitiesWith<Components...>, with what it returns
WorldGetEntitiesWith(required) ==
    /\ ~trapped
    /\ lastCall' = [op |-> "getEntitiesWith", required |-> required,
                    result |-> getEntitiesWith(m_world, required), round |-> lastCall.round]
    /\ UNCHANGED <<m_world, trapped>>
    /\ WorldFrame

NextWorld ==
    \/ WorldCreateEntity
    \/ \E id \in CallerIds : WorldDestroyEntity(id)
    \/ \E id \in CallerIds, c \in WorldComponentTypes : WorldAddComponent(id, c)
    \/ \E id \in CallerIds, c \in WorldComponentTypes : WorldRemoveComponent(id, c)
    \/ \E required \in SUBSET WorldComponentTypes : WorldGetEntitiesWith(required)

SpecWorld == InitWorld /\ [][NextWorld]_vars

(***************************************************************************)
(* The road network netC edited by its caller (SpecNet), and routes asked  *)
(* of the facade on it (SpecPath, and SpecCrowded when many segments were  *)
(* created before).  No call made here reaches an assert(), so the build   *)
(* that keeps them stands for both.  lastCall.issuedRoads and              *)
(* lastCall.issuedIntersections are the identifiers the network has        *)
(* returned since the first call.                                          *)
(***************************************************************************)
\* the segments createRoadSegment is called with
SegmentInputs ==
    {<<0, Fx(30), Fx(60), Fx(30)>>,
     <<Fx(60), Fx(30), Fx(60), Fx(90)>>}
\* the segment createRoadSegment is called with while netC is edited
EditInputs == {<<0, Fx(30), Fx(60), Fx(30)>>}
\* the positions createIntersection is called with
IntersectionInputs == {<<Fx(60), Fx(30)>>}
\* the routes findPath is asked for: from the first segment to the second
\* one, back, and from a point away from both
RouteInputs ==
    {<<Fx(10), Fx(30), Fx(60), Fx(80)>>,
     <<Fx(60), Fx(80), Fx(10), Fx(30)>>,
     <<Fx(300), Fx(300), Fx(10), Fx(30)>>}

\* the segment createRoadSegment makes for a call away from every input
FarSegment(id) ==
    addLane(WasmRoadSegment(id, WasmVector2D(Fx(500), Fx(500)), WasmVector2D(Fx(510), Fx(500))),
            DefaultLaneWidth, "Driving")

\* a network on which createRoadSegment was called NeighborScanLimit times,
\* each time for a segment away from every input: the calls returned the
\* identifiers 0 .. NeighborScanLimit - 1
Crowded ==
    [NewNetwork EXCEPT !.m_roadSegments = [id \in 0 .. (NeighborScanLimit - 1) |-> FarSegment(id)],
                       !.m_nextRoadId = NeighborScanLimit]

\* the facade constructed, and netC new
InitNet ==
    /\ m_world = setupSystems(NewWorld)
    /\ m_roadNetwork = None
    /\ m_width = Fx(800)
    /\ m_height = Fx(600)
    /\ m_keepInBounds = TRUE
    /\ ndebug = FALSE
    /\ trapped = FALSE
    /\ ticks = 0
    /\ lastCall = [op |-> "construct", issuedRoads |-> {}, issuedIntersections |-> {}]
    /\ networks = BuiltNetworks
    /\ m_vehicles = <<>>
    /\ m_nextId = 0
    /\ simulation = NewTrafficSimulation

\* the facade constructed, and netC crowded
InitCrowded ==
    /\ m_world = setupSystems(NewWorld)
    /\ m_roadNetwork = None
    /\ m_width = Fx(800)
    /\ m_height = Fx(600)
    /\ m_keepInBounds = TRUE
    /\ ndebug = FALSE
    /\ trapped = FALSE
    /\ ticks = 0
    /\ lastCall = [op |-> "construct", issuedRoads |-> {}, issuedIntersections |-> {}]
    /\ networks = [BuiltNetworks EXCEPT ![EditedNetwork] = Crowded]
    /\ m_vehicles = <<>>
    /\ m_nextId = 0
    /\ simulation = NewTrafficSimulation

\* the variables a call on the network leaves alone
NetFrame ==
    UNCHANGED <<m_world, m_roadNetwork, m_width, m_height, m_keepInBounds, ndebug, trapped, ticks,
                m_vehicles, m_nextId, simulation>>

\* the segment identifiers the caller holds
IssuedRoadIds == lastCall.issuedRoads

\* a call of WasmRoadNetwork::createRoadSegment on netC
CreateRoadSegment(startX, startY, endX, endY) ==
    /\ LET created == createRoadSegment(networks[EditedNetwork], startX, startY, endX, endY)
       IN  /\ networks' = [networks EXCEPT ![EditedNetwork] = created.network]
           /\ lastCall' = [op |-> "createRoadSegment", id |-> created.id,
                           issuedRoads |-> lastCall.issuedRoads \cup {created.id},
                           issuedIntersections |-> lastCall.issuedIntersections]
    /\ NetFrame

\* createRoadSegment, called while netC holds fewer than MaxSegments segments
NetCreateRoadSegment(startX, startY, endX, endY) ==
    /\ Cardinality(DOMAIN networks[EditedNetwork].m_roadSegments) < MaxSegments
    /\ CreateRoadSegment(startX, startY, endX, endY)

\* createRoadSegment, called while the crowded netC holds fewer than
\* MaxSegments segments more
CrowdedCreateRoadSegment(startX, startY, endX, endY) ==
    /\ Cardinality(DOMAIN networks[EditedNetwork].m_roadSegments) < NeighborScanLimit + MaxSegments
    /\ CreateRoadSegment(startX, startY, endX, endY)

\* a call of WasmRoadNetwork::createIntersection on netC
NetCreateIntersection(x, y) ==
    /\ Cardinality(DOMAIN networks[EditedNetwork].m_intersections) < MaxIntersections
    /\ LET created == createIntersection(networks[EditedNetwork], x, y)
       IN  /\ networks' = [networks EXCEPT ![EditedNetwork] = created.network]
           /\ lastCall' = [op |-> "createIntersection", id |-> created.id,
                           issuedRoads |-> lastCall.issuedRoads,
                           issuedIntersections |-> lastCall.issuedIntersections \cup {created.id}]
    /\ NetFrame

\* a call of addLane on the segment getRoadSegment(roadId) returns
NetAddLane(roadId) ==
    /\ hasRoadSegment(networks[EditedNetwork], roadId)
    /\ Len(getRoadSegment(networks[EditedNetwork], roadId).m_lanes) < MaxLanes
    /\ networks' = [networks EXCEPT ![EditedNetwork].m_roadSegments[roadId] =
                        addLane(@, DefaultLaneWidth, "Driving")]
    /\ lastCall' = [op |-> "addLane", roadId |-> roadId,
                    issuedRoads |-> lastCall.issuedRoads,
                    issuedIntersections |-> lastCall.issuedIntersections]
    /\ NetFrame

\* a call of WasmRoadNetwork::connectWithIntersection on netC
NetConnectWithIntersection(road1Id, road1End, road2Id, road2End) ==
    /\ Cardinality(DOMAIN networks[EditedNetwork].m_intersections) < MaxIntersections
    /\ LET connected == connectWithIntersection(networks[EditedNetwork], road1Id, road1End, road2Id, road2End)
       IN  /\ networks' = [networks EXCEPT ![EditedNetwork] = connected.network]
           /\ lastCall' = [op |-> "connectWithIntersection", id |-> connected.id,
                           road1Id |-> road1Id, road2Id |-> road2Id,
                           issuedRoads |-> lastCall.issuedRoads,
                           issuedIntersections |->
                               IF connected.id = InvalidId THEN lastCall.issuedIntersections
                               ELSE lastCall.issuedIntersections \cup {connected.id}]
    /\ NetFrame

\* connectWithIntersection on the end of one segment and the start of
\* another or of the same one, the segment of lower id first
ConnectEndToStart(road1Id, road2Id) ==
    /\ road1Id <= road2Id
    /\ NetConnectWithIntersection(road1Id, TRUE, road2Id, FALSE)

\* connectWithIntersection on two ends of two segments, the segment of
\* lower id first
ConnectTwo(road1Id, road1End, road2Id, road2End) ==
    /\ road1Id < road2Id
    /\ NetConnectWithIntersection(road1Id, road1End, road2Id, road2End)

\* a call of WasmRoadNetwork::clear on netC
NetClear ==
    /\ networks' = [networks EXCEPT ![EditedNetwork] = networkClear(@)]
    /\ lastCall' = [op |-> "clear",
                    issuedRoads |-> lastCall.issuedRoads,
                    issuedIntersections |-> lastCall.issuedIntersections]
    /\ NetFrame

\* the road network netC edited by its caller
NextNet ==
    \/ \E s \in EditInputs : NetCreateRoadSegment(s[1], s[2], s[3], s[4])
    \/ \E p \in IntersectionInputs : NetCreateIntersection(p[1], p[2])
    \/ \E roadId \in IssuedRoadIds : NetAddLane(roadId)
    \/ \E road1Id, road2Id \in IssuedRoadIds : ConnectEndToStart(road1Id, road2Id)
    \/ NetClear

SpecNet == InitNet /\ [][NextNet]_vars

\* WasmTrafficSimulation::setRoadNetwork(&netC), called once
AttachEditedNetwork ==
    /\ m_roadNetwork = None
    /\ m_roadNetwork' = EditedNetwork
    /\ m_world' = registerSystem(m_world, createPathFollowingSystem(EditedNetwork))
    /\ lastCall' = [op |-> "setRoadNetwork", roadNetwork |-> EditedNetwork,
                    issuedRoads |-> lastCall.issuedRoads,
                    issuedIntersections |-> lastCall.issuedIntersections]
    /\ UNCHANGED <<m_width, m_height, m_keepInBounds, ndebug, trapped, ticks, networks, m_vehicles, m_nextId, simulation>>

\* a call of WasmTrafficSimulation::findPath: startRoadId and endRoadId are
\* what the two findNearestRoadSegment calls returned
FindPath(startX, startY, endX, endY) ==
    /\ m_roadNetwork # None
    /\ LET net == networks[m_roadNetwork]
       IN  \E startRoadId \in findNearestRoadSegment(net, startX, startY, DefaultMaxDistance),
              endRoadId \in findNearestRoadSegment(net, endX, endY, DefaultMaxDistance) :
             \E path \in findPathBetween(net, startRoadId, endRoadId) :
               lastCall' = [op |-> "findPath",
                            startX |-> startX, startY |-> startY, endX |-> endX, endY |-> endY,
                            startRoadId |-> startRoadId, endRoadId |-> endRoadId, path |-> path,
                            issuedRoads |-> lastCall.issuedRoads,
                            issuedIntersections |-> lastCall.issuedIntersections]
    /\ UNCHANGED networks
    /\ NetFrame

\* routes asked of the facade on the network netC as its caller builds it
NextPath ==
    \/ \E s \in SegmentInputs : NetCreateRoadSegment(s[1], s[2], s[3], s[4])
    \/ \E road1Id, road2Id \in IssuedRoadIds, road1End, road2End \in BOOLEAN :
          ConnectTwo(road1Id, road1End, road2Id, road2End)
    \/ AttachEditedNetwork
    \/ \E r \in RouteInputs : FindPath(r[1], r[2], r[3], r[4])

SpecPath == InitNet /\ [][NextPath]_vars

\* routes asked of the facade on the crowded network netC
NextCrowded ==
    \/ \E s \in SegmentInputs : CrowdedCreateRoadSegment(s[1], s[2], s[3], s[4])
    \/ \E road1Id, road2Id \in IssuedRoadIds, road1End, road2End \in BOOLEAN :
          ConnectTwo(road1Id, road1End, road2Id, road2End)
    \/ AttachEditedNetwork
    \/ \E r \in RouteInputs : FindPath(r[1], r[2], r[3], r[4])

SpecCrowded == InitCrowded /\ [][NextCrowded]_vars

(***************************************************************************)
(* Three segments meeting at one point (SpecJunction): netC holds the      *)
(* segments 0, 1 and 2, which the caller then joins by                     *)
(* connectWithIntersection calls, one more than MaxIntersections of them.  *)
(***************************************************************************)
\* netC after three createRoadSegment calls: 0 from (0,30) to (60,30), 1 from
\* there up to (60,90), 2 from there on to (120,30)
Junction ==
    LET first == createRoadSegment(NewNetwork, 0, Fx(30), Fx(60), Fx(30))
        second == createRoadSegment(first.network, Fx(60), Fx(30), Fx(60), Fx(90))
    IN  createRoadSegment(second.network, Fx(60), Fx(30), Fx(120), Fx(30)).network

\* the facade constructed, and netC holding the three segments
InitJunction ==
    /\ m_world = setupSystems(NewWorld)
    /\ m_roadNetwork = None
    /\ m_width = Fx(800)
    /\ m_height = Fx(600)
    /\ m_keepInBounds = TRUE
    /\ ndebug = FALSE
    /\ trapped = FALSE
    /\ ticks = 0
    /\ lastCall = [op |-> "construct", issuedRoads |-> DOMAIN Junction.m_roadSegments,
                   issuedIntersections |-> {}]
    /\ networks = [BuiltNetworks EXCEPT ![EditedNetwork] = Junction]
    /\ m_vehicles = <<>>
    /\ m_nextId = 0
    /\ simulation = NewTrafficSimulation

\* connectWithIntersection on two ends of two of the three segments, the
\* segment of lower id first
JunctionConnect(road1Id, road1End, road2Id, road2End) ==
    /\ road1Id < road2Id
    /\ Cardinality(DOMAIN networks[EditedNetwork].m_intersections) < MaxIntersections + 1
    /\ LET connected == connectWithIntersection(networks[EditedNetwork], road1Id, road1End, road2Id, road2End)
       IN  /\ networks' = [networks EXCEPT ![EditedNetwork] = connected.network]
           /\ lastCall' = [op |-> "connectWithIntersection", id |-> connected.id,
                           road1Id |-> road1Id, road1End |-> road1End,
                           road2Id |-> road2Id, road2End |-> road2End,
                           issuedRoads |-> lastCall.issuedRoads,
                           issuedIntersections |-> lastCall.issuedIntersections \cup {connected.id}]
    /\ NetFrame

\* routes asked of the facade while the three segments are joined
NextJunction ==
    \/ \E road1Id, road2Id \in IssuedRoadIds, road1End, road2End \in BOOLEAN :
          JunctionConnect(road1Id, road1End, road2Id, road2End)
    \/ AttachEditedNetwork
    \/ \E r \in RouteInputs : FindPath(r[1], r[2], r[3], r[4])

SpecJunction == InitJunction /\ [][NextJunction]_vars

(***************************************************************************)
(* Two routes of different cost (SpecDetour): netC holds the segments      *)
(* 0 from (-10,0) to (200,50), 1 from (200,50) to (200,0), 2 from (-10,0)  *)
(* to (0,0), 3 from (0,0) to (200,0) and, apart from them, 4 from (60,120) *)
(* to (120,120); the caller joins the ends that meet, in any order, and    *)
(* asks for routes.                                                        *)
(***************************************************************************)
\* netC after the five createRoadSegment calls
Detour ==
    LET first == createRoadSegment(NewNetwork, -Fx(10), 0, Fx(200), Fx(50))
        second == createRoadSegment(first.network, Fx(200), Fx(50), Fx(200), 0)
        third == createRoadSegment(second.network, -Fx(10), 0, 0, 0)
        fourth == createRoadSegment(third.network, 0, 0, Fx(200), 0)
    IN  createRoadSegment(fourth.network, Fx(60), Fx(120), Fx(120), Fx(120)).network

\* the connectWithIntersection calls of the caller: the ends that meet
DetourConnections ==
    {<<0, FALSE, 2, FALSE>>, <<0, TRUE, 1, FALSE>>, <<1, TRUE, 3, TRUE>>, <<2, TRUE, 3, FALSE>>}

\* the routes asked for: from segment 0 to segment 3, back, from segment 2 to
\* segment 1, and from segment 1 to segment 4
DetourRoutes ==
    {<<Fx(95), Fx(25), Fx(100), 0>>,
     <<Fx(100), 0, Fx(95), Fx(25)>>,
     <<-Fx(5), 0, Fx(200), Fx(25)>>,
     <<Fx(200), Fx(25), Fx(90), Fx(120)>>}

\* the facade constructed, and netC holding the five segments
InitDetour ==
    /\ m_world = setupSystems(NewWorld)
    /\ m_roadNetwork = None
    /\ m_width = Fx(800)
    /\ m_height = Fx(600)
    /\ m_keepInBounds = TRUE
    /\ ndebug = FALSE
    /\ trapped = FALSE
    /\ ticks = 0
    /\ lastCall = [op |-> "construct", issuedRoads |-> DOMAIN Detour.m_roadSegments,
                   issuedIntersections |-> {}]
    /\ networks = [BuiltNetworks EXCEPT ![EditedNetwork] = Detour]
    /\ m_vehicles = <<>>
    /\ m_nextId = 0
    /\ simulation = NewTrafficSimulation

\* one of the connectWithIntersection calls, made once
DetourConnect(road1Id, road1End, road2Id, road2End) ==
    /\ \A i \in DOMAIN networks[EditedNetwork].m_intersections :
          networks[EditedNetwork].m_intersections[i].m_connectedRoads # <<road1Id, road2Id>>
    /\ LET connected == connectWithIntersection(networks[EditedNetwork], road1Id, road1End, road2Id, road2End)
       IN  /\ networks' = [networks EXCEPT ![EditedNetwork] = connected.network]
           /\ lastCall' = [op |-> "connectWithIntersection", id |-> connected.id,
                           road1Id |-> road1Id, road2Id |-> road2Id,
                           issuedRoads |-> lastCall.issuedRoads,
                           issuedIntersections |-> lastCall.issuedIntersections \cup {connected.id}]
    /\ NetFrame

\* routes asked of the facade while the four segments are joined
NextDetour ==
    \/ \E c \in DetourConnections : DetourConnect(c[1], c[2], c[3], c[4])
    \/ AttachEditedNetwork
    \/ \E r \in DetourRoutes : FindPath(r[1], r[2], r[3], r[4])

SpecDetour == InitDetour /\ [][NextDetour]_vars

(***************************************************************************)
(* findPath followed through its loop (SpecSearch): on the network of      *)
(* SpecDetour, whose four segments form a cycle once they are joined, a    *)
(* call of findPath is a step that sets up the search, one step for each   *)
(* iteration of the while loop, and the return.  lastCall holds the call   *)
(* in progress (op "search"): the containers of the loop in st, the        *)
(* segments expanded so far, in order, in expanded, and the number of      *)
(* iterations made in iterations.                                          *)
(***************************************************************************)
\* findPath is not running
Idle == lastCall.op # "search"

\* what lastCall holds once the call of findPath in call has returned path
Returned(call, path) ==
    [op |-> "findPath",
     startX |-> call.startX, startY |-> call.startY, endX |-> call.endX, endY |-> call.endY,
     startRoadId |-> call.startRoadId, endRoadId |-> call.endRoadId, path |-> path,
     expanded |-> call.expanded, iterations |-> call.iterations,
     issuedRoads |-> call.issuedRoads, issuedIntersections |-> call.issuedIntersections]

\* a faulty loop body: the node read from the top of the queue stays in it
IterateWithoutPop(net, st, current, endRoadId, endMidpoint) ==
    LET popped == st
        closed == [popped EXCEPT !.closedSet = @ \cup {current.roadId}]
    IN  IF current.roadId \in st.closedSet
        THEN [st |-> popped, found |-> FALSE, expanded |-> <<>>]
        ELSE IF current.roadId = endRoadId
        THEN [st |-> popped, found |-> TRUE, expanded |-> <<>>]
        ELSE IF ~hasRoadSegment(net, current.roadId)
        THEN [st |-> closed, found |-> FALSE, expanded |-> <<>>]
        ELSE [st |-> VisitNeighbors(net, closed, current.roadId, 0, endMidpoint),
              found |-> FALSE, expanded |-> <<current.roadId>>]

\* one iteration of the while loop of findPath with current at the top of
\* the queue: the containers after it, whether it left the loop at the end
\* segment, and the segment whose neighbours it scanned, if any
Iterate(net, st, current, endRoadId, endMidpoint) ==
    LET popped == [st EXCEPT !.openSet = @ \ {current}]
        closed == [popped EXCEPT !.closedSet = @ \cup {current.roadId}]
    IN  IF current.roadId \in st.closedSet
        THEN [st |-> popped, found |-> FALSE, expanded |-> <<>>]
        ELSE IF current.roadId = endRoadId
        THEN [st |-> popped, found |-> TRUE, expanded |-> <<>>]
        ELSE IF ~hasRoadSegment(net, current.roadId)
        THEN [st |-> closed, found |-> FALSE, expanded |-> <<>>]
        ELSE [st |-> VisitNeighbors(net, closed, current.roadId, 0, endMidpoint),
              found |-> FALSE, expanded |-> <<current.roadId>>]

\* findPath up to the while loop: the two nearest segments are looked up,
\* and the call returns at once or enters the loop with the start node
SearchBegin(startX, startY, endX, endY) ==
    /\ Idle
    /\ m_roadNetwork # None
    /\ LET net == networks[m_roadNetwork]
       IN  \E startRoadId \in findNearestRoadSegment(net, startX, startY, DefaultMaxDistance),
              endRoadId \in findNearestRoadSegment(net, endX, endY, DefaultMaxDistance) :
             LET call == [startX |-> startX, startY |-> startY, endX |-> endX, endY |-> endY,
                          startRoadId |-> startRoadId, endRoadId |-> endRoadId, expanded |-> <<>>,
                          iterations |-> 0,
                          issuedRoads |-> lastCall.issuedRoads,
                          issuedIntersections |-> lastCall.issuedIntersections]
                 startNode == Node(startRoadId, 0,
                                   heuristic(getRoadSegment(net, startRoadId),
                                             Midpoint(getRoadSegment(net, endRoadId))), nullptr)
             IN  IF startRoadId = InvalidId \/ endRoadId = InvalidId \/ startRoadId = endRoadId
                 THEN \E path \in findPathBetween(net, startRoadId, endRoadId) :
                          lastCall' = Returned(call, path)
                 ELSE lastCall' = call @@
                          [op |-> "search",
                           st |-> [openSet |-> {startNode},
                                   gScores |-> Put(EmptyMap, startRoadId, 0),
                                   closedSet |-> {},
                                   nodeMap |-> Put(EmptyMap, startRoadId, startNode)]]
    /\ UNCHANGED networks
    /\ NetFrame

\* the test of the while loop and one iteration, or the reconstruction of
\* the path and the return when the loop is left
SearchStep ==
    /\ ~Idle
    /\ LET net == networks[m_roadNetwork]
           st == lastCall.st
       IN  IF st.openSet = {} THEN lastCall' = Returned(lastCall, <<>>)
           ELSE \E current \in {n \in st.openSet : \A other \in st.openSet : n.fScore <= other.fScore} :
                  LET after == Iterate(net, st, current, lastCall.endRoadId,
                                       Midpoint(getRoadSegment(net, lastCall.endRoadId)))
                  IN  IF after.found
                      THEN lastCall' = Returned(lastCall, ReconstructPath(st.nodeMap, lastCall.endRoadId))
                      ELSE lastCall' = [lastCall EXCEPT !.st = after.st,
                                                        !.expanded = @ \o after.expanded,
                                                        !.iterations = @ + 1]
    /\ UNCHANGED networks
    /\ NetFrame

\* a connectWithIntersection call of the caller, made while findPath is not
\* running
SearchConnect(road1Id, road1End, road2Id, road2End) ==
    /\ Idle
    /\ DetourConnect(road1Id, road1End, road2Id, road2End)

\* setRoadNetwork(&netC), called while findPath is not running
SearchAttach ==
    /\ Idle
    /\ AttachEditedNetwork

NextSearch ==
    \/ \E c \in DetourConnections : SearchConnect(c[1], c[2], c[3], c[4])
    \/ SearchAttach
    \/ \E r \in DetourRoutes : SearchBegin(r[1], r[2], r[3], r[4])
    \/ SearchStep

SpecSearch == InitDetour /\ [][NextSearch]_vars

(***************************************************************************)
(* Traffic signals (SpecSignal).  The facade creates no signal itself: the *)
(* caller reaches the world through getWorld(), creates an entity, adds a  *)
(* WasmTrafficSignalComponent and writes its public fields; update() then  *)
(* runs the Signal-Timing system on it.                                    *)
(***************************************************************************)
\* WasmTrafficSignalComponent::WasmTrafficSignalComponent
WasmTrafficSignalComponent ==
    [state |-> "Red", timeRemaining |-> 0,
     greenDuration |-> Fx(30), yellowDuration |-> Fx(5), redDuration |-> Fx(30)]

\* the values the caller writes into a signal it has added: none (the signal
\* as constructed), or a phase, a time left and the three durations
SignalInputs ==
    {WasmTrafficSignalComponent,
     [state |-> "Green", timeRemaining |-> Fx(1),
      greenDuration |-> Fx(2), yellowDuration |-> Fx(1), redDuration |-> Fx(2)],
     [state |-> "Yellow", timeRemaining |-> Half,
      greenDuration |-> Fx(2), yellowDuration |-> Fx(1), redDuration |-> 0],
     [state |-> "Green", timeRemaining |-> Fx(3),
      greenDuration |-> Fx(3), yellowDuration |-> Half, redDuration |-> Fx(1)]}

\* the time steps update() is called with while signals exist
SignalDtValues == {Fx(1), Half, Fx(4), NaN}

\* getWorld().createEntity() followed by addComponent<WasmTrafficSignalComponent>
\* on the new identifier and the writes of the caller to the fields
AddTrafficSignal(signal) ==
    /\ ~trapped
    /\ Len(m_world.m_entities) < MaxEntities
    /\ LET created == createEntity(m_world)
           call == [op |-> "addTrafficSignal", id |-> created.id, signal |-> signal]
       IN  IF ~ndebug /\ ~AddAsserts(created.world, created.id) THEN Trap(call)
           ELSE /\ m_world' = addComponent(created.world, created.id, TrafficSignal, signal)
                /\ lastCall' = call
                /\ UNCHANGED trapped
    /\ UNCHANGED <<m_roadNetwork, m_width, m_height, m_keepInBounds, ndebug, ticks, networks, m_vehicles, m_nextId, simulation>>

\* the facade driven with signals added by the caller
NextSignal ==
    \/ \E signal \in SignalInputs : AddTrafficSignal(signal)
    \/ \E dt \in SignalDtValues : Update(dt)

SpecSignal == Init /\ [][NextSignal]_vars

(***************************************************************************)
(* Signals under an unending sequence of updates (SpecCycle): the caller   *)
(* adds signals as constructed, Red with no time left, writes their        *)
(* durations, and the frame loop of the host keeps calling update().       *)
(***************************************************************************)
\* cap on the signals added under the frame loop
MaxSignals == 1

\* the signals the caller adds: signals with durations of seconds, and one
\* whose green phase lasts 2^26 seconds
CycleSignals ==
    {[WasmTrafficSignalComponent EXCEPT !.greenDuration = Fx(2), !.yellowDuration = Fx(1), !.redDuration = Fx(2)],
     [WasmTrafficSignalComponent EXCEPT !.greenDuration = Fx(3), !.yellowDuration = Half, !.redDuration = Fx(1)],
     [WasmTrafficSignalComponent EXCEPT !.greenDuration = Fx(4), !.yellowDuration = Fx(1), !.redDuration = Fx(3)],
     [WasmTrafficSignalComponent EXCEPT !.greenDuration = Fx(67108864), !.yellowDuration = Fx(1), !.redDuration = Fx(2)]}

\* a signal added while fewer than MaxSignals exist
CycleAddTrafficSignal(signal) ==
    /\ Len(m_world.m_entities) < MaxSignals
    /\ AddTrafficSignal(signal)

\* the time steps of the frame loop
CycleDtValues == {Half, Fx(1), Fx(2)}

\* WasmTrafficSimulation::update, called by the frame loop without end (the
\* calls are not counted)
Tick(dt) ==
    /\ ~trapped
    /\ \E stages \in {RunFrom(m_world, networks, 1, dt)} :
        /\ m_world' = IF stages = <<>> THEN m_world ELSE stages[Len(stages)]
        /\ lastCall' = [op |-> "update", dt |-> dt,
                        order |-> [k \in 1 .. Len(m_world.m_systems) |-> m_world.m_systems[k].kind],
                        stages |-> stages]
    /\ UNCHANGED <<m_roadNetwork, m_width, m_height, m_keepInBounds, ndebug, trapped, ticks, networks, m_vehicles, m_nextId, simulation>>

\* one call of the frame loop
Frame == \E dt \in CycleDtValues : Tick(dt)

\* signals added while the frame loop runs
NextCycle ==
    \/ \E signal \in CycleSignals : CycleAddTrafficSignal(signal)
    \/ \E dt \in CycleDtValues : Tick(dt)

\* the frame loop never stops calling update()
SpecCycle == Init /\ [][NextCycle]_vars /\ WF_vars(Frame)

(***************************************************************************)
(* The simplified facade (SimpleTrafficSimulation.cpp): the class          *)
(* WasmTrafficSimulation of the build without the ECS.  Its vehicles are   *)
(* the slots of the vector m_vehicles, a vehicle's id is the index of its  *)
(* slot, and m_nextId is the index the next appended slot gets.  The       *)
(* variables of the ECS facade keep their initial values (SpecSimple).     *)
(***************************************************************************)
\* WasmVehicle::WasmVehicle
WasmVehicle ==
    [position |-> WasmVector2D(0, 0), velocity |-> WasmVector2D(0, 0),
     maxSpeed |-> DefaultMaxSpeed, active |-> FALSE]

\* std::vector::resize(n): slots cut from the end, or default slots appended
Resize(vehicles, n) ==
    IF n <= Len(vehicles) THEN SubSeq(vehicles, 1, n)
    ELSE vehicles \o [i \in 1 .. (n - Len(vehicles)) |-> WasmVehicle]

\* the indices the search loop of createVehicle accepts
InactiveSlots(vehicles) == {i \in 0 .. (Len(vehicles) - 1) : ~vehicles[i + 1].active}

\* WasmTrafficSimulation::createVehicle of the simplified facade: the slots
\* and m_nextId after the call, and the id returned
simpleCreateVehicle(vehicles, nextId, x, y, vx, vy) ==
    LET found == InactiveSlots(vehicles)
        id == IF found # {} THEN CHOOSE i \in found : \A other \in found : i <= other
              ELSE nextId
        resized == IF found # {} THEN vehicles ELSE Resize(vehicles, nextId + 1)
    IN  [vehicles |-> [resized EXCEPT ![id + 1] =
                          [position |-> WasmVector2D(x, y), velocity |-> WasmVector2D(vx, vy),
                           maxSpeed |-> DefaultMaxSpeed, active |-> TRUE]],
         nextId |-> IF found # {} THEN nextId ELSE nextId + 1,
         id |-> id]

\* WasmTrafficSimulation::clear of the simplified facade
simpleClear(vehicles) == [i \in 1 .. Len(vehicles) |-> [vehicles[i] EXCEPT !.active = FALSE]]

\* WasmTrafficSimulation::getVehicleCount of the simplified facade
simpleGetVehicleCount(vehicles) == Cardinality({i \in 1 .. Len(vehicles) : vehicles[i].active})

\* WasmTrafficSimulation::WasmTrafficSimulation of the simplified facade
InitSimple ==
    /\ m_vehicles = <<>>
    /\ m_nextId = 0
    /\ simulation = NewTrafficSimulation
    /\ m_width = Fx(800)
    /\ m_height = Fx(600)
    /\ m_keepInBounds = TRUE
    /\ m_world = NewWorld
    /\ m_roadNetwork = None
    /\ ndebug = FALSE
    /\ trapped = FALSE
    /\ ticks = 0
    /\ lastCall = [op |-> "construct"]
    /\ networks = BuiltNetworks

\* the variables the simplified facade does not have or does not write
SimpleFrame ==
    UNCHANGED <<m_world, m_roadNetwork, m_width, m_height, m_keepInBounds, ndebug, trapped, ticks,
                networks, simulation>>

\* a call of createVehicle, made while it leaves at most MaxVehicles slots
SimpleCreateVehicle(x, y, vx, vy) ==
    /\ InactiveSlots(m_vehicles) # {} \/ m_nextId < MaxVehicles
    /\ LET created == simpleCreateVehicle(m_vehicles, m_nextId, x, y, vx, vy)
       IN  /\ m_vehicles' = created.vehicles
           /\ m_nextId' = created.nextId
           /\ lastCall' = [op |-> "createVehicle", x |-> x, y |-> y, vx |-> vx, vy |-> vy,
                           id |-> created.id]
    /\ SimpleFrame

\* a call of clear
SimpleClear ==
    /\ m_vehicles' = simpleClear(m_vehicles)
    /\ m_nextId' = 0
    /\ lastCall' = [op |-> "clear"]
    /\ SimpleFrame

\* the simplified facade driven by its caller
NextSimple ==
    \/ \E v \in VehicleInputs : SimpleCreateVehicle(v[1], v[2], v[3], v[4])
    \/ SimpleClear

SpecSimple == InitSimple /\ [][NextSimple]_vars

(***************************************************************************)
(* The core facade driven by its caller (SpecCore): initialize, up to      *)
(* MaxEntities entities, up to MaxTicks updates, setKeepInBounds, clear.   *)
(***************************************************************************)
\* the sizes the core facade is initialized with
CoreSizes == {<<Fx(100), Fx(100)>>, <<Fx(800), Fx(600)>>}

\* the vehicles created: moving along an axis, moving diagonally, at rest,
\* and moving next to the right edge
CoreVehicleInputs ==
    {<<Fx(10), Fx(20), Fx(5), 0>>,
     <<Fx(50), Fx(50), -Fx(3), Fx(4)>>,
     <<Fx(30), Fx(40), 0, 0>>,
     <<Fx(95), Fx(50), Fx(10), 0>>}

\* the time steps of the core facade
CoreDtValues == {Half, Fx(1)}

\* the variables the core facade does not have
CoreFrame ==
    UNCHANGED <<m_world, m_roadNetwork, m_width, m_height, m_keepInBounds, ndebug, trapped,
                networks, m_vehicles, m_nextId>>

\* a call of initialize
CoreInitialize(width, height) ==
    /\ Len(simulation.m_world.m_entities) < MaxEntities
    /\ simulation' = coreInitialize(simulation, width, height)
    /\ lastCall' = [op |-> "initialize", width |-> width, height |-> height]
    /\ UNCHANGED ticks
    /\ CoreFrame

\* a call of createVehicle
CoreCreateVehicle(x, y, vx, vy) ==
    /\ Len(simulation.m_world.m_entities) < MaxEntities
    /\ LET created == coreCreateVehicle(simulation, x, y, vx, vy)
       IN  /\ simulation' = created.simulation
           /\ lastCall' = [op |-> "createVehicle", x |-> x, y |-> y, vx |-> vx, vy |-> vy,
                           id |-> created.simID]
    /\ UNCHANGED ticks
    /\ CoreFrame

\* a call of update
CoreUpdate(dt) ==
    /\ ticks < MaxTicks
    /\ ticks' = ticks + 1
    /\ simulation' = coreUpdate(simulation, dt)
    /\ lastCall' = [op |-> "update", dt |-> dt]
    /\ CoreFrame

\* a call of setKeepInBounds
CoreSetKeepInBounds(keep) ==
    /\ simulation' = [simulation EXCEPT !.m_keepInBounds = keep]
    /\ lastCall' = [op |-> "setKeepInBounds", keepInBounds |-> keep]
    /\ UNCHANGED ticks
    /\ CoreFrame

\* a call of clear
CoreClear ==
    /\ simulation' = coreClear(simulation)
    /\ ticks' = 0
    /\ lastCall' = [op |-> "clear"]
    /\ CoreFrame

\* the core facade driven by its caller
NextCore ==
    \/ \E size \in CoreSizes : CoreInitialize(size[1], size[2])
    \/ \E v \in CoreVehicleInputs : CoreCreateVehicle(v[1], v[2], v[3], v[4])
    \/ \E dt \in CoreDtValues : CoreUpdate(dt)
    \/ \E keep \in BOOLEAN : CoreSetKeepInBounds(keep)
    \/ CoreClear

SpecCore == Init /\ [][NextCore]_vars

(***************************************************************************)
(* Vehicles meeting inside the bounds (SpecCollide): initialize is called  *)
(* first and once, then up to MaxEntities vehicles are created and update  *)
(* runs.                                                                   *)
(***************************************************************************)
\* the vehicles created: two at rest less than two radii apart next to the
\* left edge, and one moving
CollideVehicleInputs ==
    {<<Fx(1), Fx(20), 0, 0>>,
     <<Fx(2), Fx(20), 0, 0>>,
     <<Fx(30), Fx(20), Fx(10), 0>>}

\* initialize, called on the facade as constructed
InitializeFirst(width, height) ==
    /\ m_world.m_entities = <<>>
    /\ Initialize(width, height)

\* createVehicle, called after initialize while fewer than MaxEntities
\* vehicles were created
CollideCreateVehicle(x, y, vx, vy) ==
    /\ ~trapped
    /\ m_world.m_entities # <<>>
    /\ Len(m_world.m_entities) < 1 + MaxEntities
    /\ LET created == createEntity(m_world)
           added == AddAll(created.world, created.id,
                           <<(<<Transform, WasmTransformComponent(WasmVector2D(x, y), WasmVector2D(vx, vy))>>),
                             (<<Vehicle, WasmVehicleComponent>>),
                             (<<Collision, WasmCollisionComponent(VehicleRadius)>>),
                             (<<Renderable, WasmRenderableComponent>>)>>)
           call == [op |-> "createVehicle", x |-> x, y |-> y, vx |-> vx, vy |-> vy,
                    id |-> created.id]
       IN  IF ~ndebug /\ ~added.asserted THEN Trap(call)
           ELSE /\ m_world' = added.world
                /\ lastCall' = call
                /\ UNCHANGED <<m_roadNetwork, m_width, m_height, m_keepInBounds, ndebug, trapped, ticks,
                               networks, m_vehicles, m_nextId, simulation>>

\* the facade driven with bounds set and vehicles close to each other
NextCollide ==
    \/ \E size \in Sizes : InitializeFirst(size[1], size[2])
    \/ \E v \in CollideVehicleInputs : CollideCreateVehicle(v[1], v[2], v[3], v[4])
    \/ \E dt \in DtValues : Update(dt)

SpecCollide == Init /\ [][NextCollide]_vars

(***************************************************************************)
(* The properties.                                                         *)
(***************************************************************************)

\* C1: after clear() no vehicle entity is alive: getVehicleCount() is 0, no
\* entity holds a Vehicle component, and a query for Transform is empty.
C1_ClearLeavesNoVehicle ==
    lastCall.op = "clear" =>
        /\ getVehicleCount(m_world) = 0
        /\ getEntitiesWith(m_world, {Vehicle}) = <<>>
        /\ getEntitiesWith(m_world, {Transform}) = <<>>

\* C2: createVehicle(x, y, vx, vy) completes without a failed assertion of
\* the entity store, and the id it returns has position (x, y) and velocity
\* (vx, vy) until the next update.
C2_CreateVehicleCompletes ==
    lastCall.op = "createVehicle" =>
        /\ ~trapped
        /\ getVehiclePosition(m_world, lastCall.id) = WasmVector2D(lastCall.x, lastCall.y)
        /\ getVehicleVelocity(m_world, lastCall.id) = WasmVector2D(lastCall.vx, lastCall.vy)

\* C3: when N entities are created, all of them destroyed and N entities
\* created again, the second creations return the identifiers of the first,
\* and between the two phases entityExists is false for each of them.
C3_RecyclingReturnsSameIds ==
    LET round == lastCall.round
    IN  (round.first # {} /\ round.destroyed = round.first) =>
            /\ round.second = {} => \A id \in round.first : ~entityExists(m_world, id)
            /\ Cardinality(round.second) = Cardinality(round.first) => round.second = round.first

\* C4: an update made with a road network attached runs the systems in the
\* order Movement, Bounds, Path-Following, Collision, Signal-Timing.
C4_SystemOrder ==
    (lastCall.op = "update" /\ m_roadNetwork # None) =>
        lastCall.order = <<"Movement", "Bounds", "PathFollowing", "Collision", "SignalTiming">>

\* C5: whatever setRoadNetwork calls were made, what the path-following
\* systems of an update do to the world is what one Path-Following pass
\* against the network getRoadNetwork() returns does (nothing when it
\* returns none).
C5_OnePassAgainstCurrentNetwork ==
    lastCall.op = "update" =>
        lastCall.stages[Len(lastCall.stages)] =
            pathFollowingSystem(lastCall.stages[4], lastCall.dt,
                                IF m_roadNetwork = None THEN NoNetwork ELSE networks[m_roadNetwork])

\* C6: one update(dt) moves a vehicle that has no path, meets no collision
\* partner and is under no bounds with keepInBounds set to
\* position + velocity * dt, and leaves its velocity unchanged.
C6_MovementStep ==
    [][(lastCall'.op = "update" /\ ticks' = ticks + 1 /\ ~BoundsActive(m_world)) =>
        \A id \in EntityIds :
            (/\ hasComponent(m_world, id, Transform)
             /\ hasComponent(m_world, id, Vehicle)
             /\ ~hasComponent(m_world, id, PathFollowing)
             /\ ~(hasComponent(m_world', id, Collision)
                  /\ getComponent(m_world', id, Collision).colliding)) =>
                LET old == getComponent(m_world, id, Transform)
                    new == getComponent(m_world', id, Transform)
                IN  /\ new.position.x = FAdd(old.position.x, FMul(old.velocity.x, lastCall'.dt))
                    /\ new.position.y = FAdd(old.position.y, FMul(old.velocity.y, lastCall'.dt))
                    /\ new.velocity = old.velocity]_vars

\* C6 witness: the vehicle created at (0,0) with velocity (10,0) stands at
\* (10,0) with velocity (10,0) after one update with dt = 1, no bounds in force
C6_Witness ==
    /\ lastCall.op = "update" /\ lastCall.dt = Fx(1) /\ ticks = 1
    /\ ~BoundsActive(m_world)
    /\ \E id \in EntityIds :
          /\ hasComponent(m_world, id, Vehicle)
          /\ ~getComponent(m_world, id, Collision).colliding
          /\ getVehiclePosition(m_world, id) = WasmVector2D(Fx(10), 0)
          /\ getVehicleVelocity(m_world, id) = WasmVector2D(Fx(10), 0)

\* C7: when the Bounds pass of an update finds bounds with keepInBounds
\* true, then for every vehicle and each axis by itself: a coordinate that
\* Movement left below 0 or above the limit is set to the bound crossed and
\* the velocity on that axis becomes -0.5 times what it was (to the unit of
\* the fixed point); a coordinate in range is left as it is with its velocity.
C7_BoundsBounce ==
    (lastCall.op = "update" /\ BoundsActive(lastCall.stages[1])) =>
        LET moved == lastCall.stages[1]
            bounded == lastCall.stages[2]
            limits == getComponent(moved, FindGlobalBounds(moved), Bounds)
            Halved(before, after) ==
                IF IsNaN(before) THEN IsNaN(after) ELSE ~IsNaN(after) /\ Abs(2 * after + before) <= 1
            Axis(p, v, q, u, limit) ==
                IF FLt(p, 0) THEN q = 0 /\ Halved(v, u)
                ELSE IF FGt(p, limit) THEN q = limit /\ Halved(v, u)
                ELSE q = p /\ u = v
        IN  \A id \in EntityIds :
                (hasComponent(moved, id, Transform) /\ hasComponent(moved, id, Vehicle)) =>
                    LET old == getComponent(moved, id, Transform)
                        new == getComponent(bounded, id, Transform)
                    IN  /\ Axis(old.position.x, old.velocity.x, new.position.x, new.velocity.x, limits.width)
                        /\ Axis(old.position.y, old.velocity.y, new.position.y, new.velocity.y, limits.height)

\* C7 witness: initialize(100,100), createVehicle(95,50,50,0), one update with
\* dt = 1: Movement leaves x = 145, the Bounds pass x = 100 and velocity.x = -25
C7_Witness ==
    /\ lastCall.op = "update" /\ lastCall.dt = Fx(1) /\ ticks = 1
    /\ m_width = Fx(100) /\ m_height = Fx(100)
    /\ BoundsActive(lastCall.stages[1])
    /\ \E id \in EntityIds :
          /\ hasComponent(m_world, id, Vehicle)
          /\ getComponent(lastCall.stages[1], id, Transform).position = WasmVector2D(Fx(145), Fx(50))
          /\ getComponent(lastCall.stages[2], id, Transform).position = WasmVector2D(Fx(100), Fx(50))
          /\ getComponent(lastCall.stages[2], id, Transform).velocity = WasmVector2D(-Fx(25), 0)
          /\ getVehiclePosition(m_world, id) = WasmVector2D(Fx(100), Fx(50))
          /\ getVehicleVelocity(m_world, id) = WasmVector2D(-Fx(25), 0)

\* C8: an update made while getKeepInBounds() returns false clamps no
\* position and damps no velocity in its Bounds pass, and removes no entity.
C8_NoClampWhenFlagFalse ==
    [][(lastCall'.op = "update" /\ ticks' = ticks + 1 /\ ~m_keepInBounds) =>
        /\ lastCall'.stages[2] = lastCall'.stages[1]
        /\ m_world'.m_entities = m_world.m_entities
        /\ m_world'.m_entityMasks = m_world.m_entityMasks]_vars

\* C9: after clear() on an initialized facade a Bounds component with the
\* width and height of the last initialize exists.
C9_BoundsAfterClear ==
    (lastCall.op = "clear" /\ <<m_width, m_height>> \in Sizes) =>
        \E id \in EntityIds :
            /\ hasComponent(m_world, id, Bounds)
            /\ getComponent(m_world, id, Bounds).width = m_width
            /\ getComponent(m_world, id, Bounds).height = m_height

\* C10: getEntitiesWith returns, for every requested set of components, the
\* existing entities whose mask includes the set and no other id, in
\* ascending order.
C10_QueryReturnsAlive ==
    lastCall.op = "getEntitiesWith" =>
        /\ SeqToSet(lastCall.result) =
              {id \in EntityIds : entityExists(m_world, id)
                                   /\ lastCall.required \subseteq m_world.m_entityMasks[id + 1]}
        /\ \A k \in 1 .. Len(lastCall.result) - 1 : lastCall.result[k] < lastCall.result[k + 1]


\* the pool of type c holds a component for id
PoolHolds(w, id, c) == w.m_componentPools[c][id] # NoComponent

C12_RemoveIsolated ==
    [][lastCall'.op = "removeComponent" =>
        \A id \in EntityIds, c \in ComponentTypes :
            (id # lastCall'.id \/ c # lastCall'.component) =>
                /\ hasComponent(m_world', id, c) = hasComponent(m_world, id, c)
                /\ getComponent(m_world', id, c) = getComponent(m_world, id, c)]_vars

\* C12 witness: removeComponent<Vehicle> has taken the Vehicle of an entity
\* that keeps its Transform, while another entity holds components
C12_Witness ==
    /\ lastCall.op = "removeComponent" /\ lastCall.had
    /\ lastCall.component = Vehicle
    /\ hasComponent(m_world, lastCall.id, Transform)
    /\ ~hasComponent(m_world, lastCall.id, Vehicle)
    /\ \E other \in EntityIds \ {lastCall.id} : hasComponent(m_world, other, Vehicle)


\* C13: within the lifetime of one network, no segment identifier and no
\* intersection identifier is issued twice, whatever createRoadSegment,
\* createIntersection, connectWithIntersection and clear calls are made.
C13_IdsNeverReissued ==
    [][/\ lastCall'.op = "createRoadSegment" => lastCall'.id \notin lastCall.issuedRoads
       /\ (lastCall'.op \in {"createIntersection", "connectWithIntersection"}
           /\ lastCall'.id # InvalidId) => lastCall'.id \notin lastCall.issuedIntersections]_vars

\* the entries of a connection table: the pairs of a key and an index into
\* the connections of the key
TableEntries(table) == UNION {{<<key, k>> : k \in 1 .. Len(table[key])} : key \in DOMAIN table}

\* the entries of a connection table from a lane of inRoadId to a lane of outRoadId
EntriesBetween(table, inRoadId, outRoadId) ==
    {e \in TableEntries(table) : e[1][1] = inRoadId /\ table[e[1]][e[2]].roadId = outRoadId}

\* C14: connectWithIntersection(A, endA, B, endB) on two distinct existing
\* segments with m and n lanes leaves, in the connection table of the new
\* intersection, exactly m*n entries from a lane of A to a lane of B and
\* m*n entries from a lane of B to a lane of A, one for every lane pair, and
\* no other entry.
C14_ConnectionTable ==
    (/\ lastCall.op = "connectWithIntersection"
     /\ lastCall.id # InvalidId
     /\ lastCall.road1Id # lastCall.road2Id) =>
        LET net == networks[EditedNetwork]
            table == net.m_intersections[lastCall.id].m_connections
            A == lastCall.road1Id
            B == lastCall.road2Id
            m == Len(getRoadSegment(net, A).m_lanes)
            n == Len(getRoadSegment(net, B).m_lanes)
            OnePerPair(from, fromLanes, to, toLanes) ==
                \A inLane \in 0 .. (fromLanes - 1), outLane \in 0 .. (toLanes - 1) :
                    Cardinality({e \in EntriesBetween(table, from, to) :
                                    /\ e[1][2] = inLane
                                    /\ table[e[1]][e[2]].laneId = outLane}) = 1
        IN  /\ Cardinality(EntriesBetween(table, A, B)) = m * n
            /\ Cardinality(EntriesBetween(table, B, A)) = m * n
            /\ OnePerPair(A, m, B, n)
            /\ OnePerPair(B, n, A, m)
            /\ Cardinality(TableEntries(table)) = 2 * m * n

\* C14 witness: a segment of 2 lanes and one of 3 lanes have just been
\* connected, with 6 entries each way
C14_Witness ==
    /\ lastCall.op = "connectWithIntersection"
    /\ lastCall.id # InvalidId
    /\ lastCall.road1Id # lastCall.road2Id
    /\ LET net == networks[EditedNetwork]
           table == net.m_intersections[lastCall.id].m_connections
       IN  /\ Len(getRoadSegment(net, lastCall.road1Id).m_lanes) = 2
           /\ Len(getRoadSegment(net, lastCall.road2Id).m_lanes) = 3
           /\ Cardinality(EntriesBetween(table, lastCall.road1Id, lastCall.road2Id)) = 6
           /\ Cardinality(EntriesBetween(table, lastCall.road2Id, lastCall.road1Id)) = 6

\* two segments are connected to one intersection of the network
SharedBy(net, a, b) ==
    \E i \in DOMAIN net.m_intersections :
        /\ a \in SeqToSet(net.m_intersections[i].m_connectedRoads)
        /\ b \in SeqToSet(net.m_intersections[i].m_connectedRoads)

RECURSIVE Reach(_, _)
\* the segments linked to one of the set by a chain of segments that
\* pairwise share an intersection
Reach(net, segments) ==
    LET next == segments \cup {b \in DOMAIN net.m_roadSegments : \E a \in segments : SharedBy(net, a, b)}
    IN  IF next = segments THEN segments ELSE Reach(net, next)

\* C15: for two points that each resolve to a segment, findPath returns a
\* non-empty path when the two segments are linked by a chain of segments
\* that pairwise share an intersection, and the empty sequence only when
\* they are not; in a network of two segments A and B joined by an
\* intersection it returns [A, B].
C15_FindPathComplete ==
    (/\ lastCall.op = "findPath"
     /\ lastCall.startRoadId # InvalidId
     /\ lastCall.endRoadId # InvalidId) =>
        LET net == networks[m_roadNetwork]
            A == lastCall.startRoadId
            B == lastCall.endRoadId
        IN  /\ B \in Reach(net, {A}) => lastCall.path # <<>>
            /\ lastCall.path = <<>> => B \notin Reach(net, {A})
            /\ (A # B /\ SharedBy(net, A, B) /\ lastCall.issuedRoads = {A, B}) =>
                   lastCall.path = << <<A, 0>>, <<B, 0>> >>

\* C16: a non-empty path returned by findPath starts with the segment
\* nearest to the start point, ends with the segment nearest to the end
\* point, has lane 0 in every element, and each two consecutive segments of
\* it share an intersection.
C16_PathWellFormed ==
    (lastCall.op = "findPath" /\ lastCall.path # <<>>) =>
        LET net == networks[m_roadNetwork]
            path == lastCall.path
            Nearest(id, x, y) ==
                /\ hasRoadSegment(net, id)
                /\ \A other \in DOMAIN net.m_roadSegments :
                      SegmentDistance(getRoadSegment(net, id), x, y)
                          <= SegmentDistance(getRoadSegment(net, other), x, y)
        IN  /\ Nearest(path[1][1], lastCall.startX, lastCall.startY)
            /\ Nearest(path[Len(path)][1], lastCall.endX, lastCall.endY)
            /\ \A k \in 1 .. Len(path) : path[k][2] = 0
            /\ \A k \in 1 .. (Len(path) - 1) : SharedBy(net, path[k][1], path[k + 1][1])

\* C16 witness: findPath has returned a route over two segments
C16_Witness ==
    /\ lastCall.op = "findPath"
    /\ Len(lastCall.path) = 2
    /\ lastCall.path[1][1] # lastCall.path[2][1]
    /\ lastCall.path[1][1] = lastCall.startRoadId
    /\ lastCall.path[2][1] = lastCall.endRoadId


\* C17: createPath returns false when no route is found, and also when no
\* road network is attached or the vehicle id is not alive; whenever it
\* returns false, no component of any entity has changed (a path assigned
\* before, its cursor and its distance stay as they were).
C17_CreatePathFailure ==
    [][lastCall'.op = "createPath" =>
        /\ (m_roadNetwork = None \/ ~entityExists(m_world, lastCall'.vehicleId)) => ~lastCall'.result
        /\ lastCall'.path = <<>> => ~lastCall'.result
        /\ ~lastCall'.result =>
              /\ m_world'.m_componentPools = m_world.m_componentPools
              /\ m_world'.m_entityMasks = m_world.m_entityMasks]_vars

\* C17 witness: createPath has returned false, for want of a route, on a
\* vehicle that holds the path of an earlier call
C17_Witness ==
    /\ lastCall.op = "createPath" /\ ~lastCall.result
    /\ m_roadNetwork # None
    /\ entityExists(m_world, lastCall.vehicleId)
    /\ hasComponent(m_world, lastCall.vehicleId, PathFollowing)
    /\ Len(getComponent(m_world, lastCall.vehicleId, PathFollowing).path) = 2


\* C18: after every Path-Following pass, every entity with Transform,
\* Vehicle and PathFollowing whose cursor has reached the end of its path
\* (cursor >= path length) has targetSpeed = 0, whether the cursor got there
\* by look-ahead overrun or over a path entry whose segment is not in the
\* network.
C18_StoppedAtEnd ==
    lastCall.op = "update" =>
        \A k \in 1 .. Len(lastCall.stages) :
            (lastCall.order[k] = "PathFollowing" /\ m_world.m_systems[k].roadNetwork # None) =>
                \A id \in EntityIds :
                    (/\ hasComponent(lastCall.stages[k], id, Transform)
                     /\ hasComponent(lastCall.stages[k], id, Vehicle)
                     /\ hasComponent(lastCall.stages[k], id, PathFollowing)
                     /\ getComponent(lastCall.stages[k], id, PathFollowing).currentPathIndex
                            >= Len(getComponent(lastCall.stages[k], id, PathFollowing).path)) =>
                        getComponent(lastCall.stages[k], id, Vehicle).targetSpeed = 0


\* the entities the Collision pass works on
CollisionHolders(w) == SeqToSet(getEntitiesWith(w, {Transform, Collision}))

\* the overlap test of the pair loop: squared distance below the squared sum
\* of the radii
Overlapping(w, a, b) ==
    LET dx == FSub(getComponent(w, b, Transform).position.x, getComponent(w, a, Transform).position.x)
        dy == FSub(getComponent(w, b, Transform).position.y, getComponent(w, a, Transform).position.y)
        minDistance == FAdd(getComponent(w, a, Collision).radius, getComponent(w, b, Collision).radius)
    IN  ~IsNaN(dx) /\ ~IsNaN(dy) /\ dx * dx + dy * dy < minDistance * minDistance

\* b is in the collidingWith list of a
CollidingWith(w, a, b) ==
    \E n \in 1 .. Len(getComponent(w, a, Collision).collidingWith) :
        getComponent(w, a, Collision).collidingWith[n] = b

\* C19: after every Collision pass, for all entities i and j with Transform
\* and Collision, i is in j's collidingWith list iff j is in i's, and the
\* lists hold exactly the pairs found overlapping in that pass: no entry
\* twice, no entity in its own list, the flag set iff the list is not empty,
\* the first pair tested listed iff it overlapped when the pass began, and
\* every list empty when no pair overlapped when the pass began, whatever the
\* lists held from the tick before.
C19_CollisionLists ==
    lastCall.op = "update" =>
        \A k \in 2 .. Len(lastCall.stages) :
            lastCall.order[k] = "Collision" =>
                LET before == lastCall.stages[k - 1]
                    after == lastCall.stages[k]
                    entities == getEntitiesWith(before, {Transform, Collision})
                    holders == CollisionHolders(after)
                    list(i) == getComponent(after, i, Collision).collidingWith
                IN  /\ \A i, j \in holders : CollidingWith(after, i, j) <=> CollidingWith(after, j, i)
                    /\ \A i \in holders :
                        /\ ~CollidingWith(after, i, i)
                        /\ \A n \in 1 .. Len(list(i)) : list(i)[n] \in holders
                        /\ \A n, p \in 1 .. Len(list(i)) : list(i)[n] = list(i)[p] => n = p
                        /\ getComponent(after, i, Collision).colliding <=> list(i) # <<>>
                    /\ Len(entities) >= 2 =>
                        (CollidingWith(after, entities[1], entities[2])
                            <=> Overlapping(before, entities[1], entities[2]))
                    /\ (\A i, j \in holders : i # j => ~Overlapping(before, i, j)) =>
                        \A i \in holders : list(i) = <<>>

\* C19 witness: a Collision pass that began with two entities in each other's
\* lists, put there by the pass of the tick before, found them apart and
\* ended with both lists empty and both flags down
C19_Witness ==
    /\ lastCall.op = "update"
    /\ \E k \in 2 .. Len(lastCall.stages) :
        /\ lastCall.order[k] = "Collision"
        /\ \E i, j \in CollisionHolders(lastCall.stages[k]) :
            /\ i # j
            /\ getComponent(lastCall.stages[k - 1], i, Collision).collidingWith = <<j>>
            /\ getComponent(lastCall.stages[k - 1], j, Collision).collidingWith = <<i>>
            /\ ~Overlapping(lastCall.stages[k - 1], i, j)
            /\ getComponent(lastCall.stages[k], i, Collision).collidingWith = <<>>
            /\ getComponent(lastCall.stages[k], j, Collision).collidingWith = <<>>
            /\ ~getComponent(lastCall.stages[k], i, Collision).colliding


\* the phase that follows phase p in the cycle
NextPhase(p) == IF p = "Green" THEN "Yellow" ELSE IF p = "Yellow" THEN "Red" ELSE "Green"

\* the configured duration of phase p of the signal s
PhaseDuration(s, p) ==
    IF p = "Green" THEN s.greenDuration
    ELSE IF p = "Yellow" THEN s.yellowDuration ELSE s.redDuration

\* C20: each Signal-Timing update of a signal decrements timeRemaining by dt
\* and changes the phase only when the result is zero or below; the only
\* changes of phase are Green to Yellow, Yellow to Red and Red to Green, right
\* after a change timeRemaining is the configured duration of the new phase,
\* and no other system of the update touches a signal.
C20_SignalTiming ==
    lastCall.op = "update" =>
        \A k \in 2 .. Len(lastCall.stages) :
            \A id \in EntityIds :
                hasComponent(lastCall.stages[k - 1], id, TrafficSignal) =>
                    LET before == getComponent(lastCall.stages[k - 1], id, TrafficSignal)
                        after == getComponent(lastCall.stages[k], id, TrafficSignal)
                        result == FSub(before.timeRemaining, lastCall.dt)
                    IN  IF lastCall.order[k] # "SignalTiming" THEN after = before
                        ELSE /\ after.state # before.state <=> (~IsNaN(result) /\ result <= 0)
                             /\ after.state = before.state => after.timeRemaining = result
                             /\ after.state # before.state =>
                                 /\ after.state = NextPhase(before.state)
                                 /\ after.timeRemaining = PhaseDuration(before, after.state)
                             /\ after.greenDuration = before.greenDuration
                             /\ after.yellowDuration = before.yellowDuration
                             /\ after.redDuration = before.redDuration

\* C20 witness: an update whose Signal-Timing pass moved a signal from Green
\* to Yellow exactly as its time ran out and gave it the yellow duration
C20_Witness ==
    /\ lastCall.op = "update"
    /\ \E k \in 2 .. Len(lastCall.stages) :
        /\ lastCall.order[k] = "SignalTiming"
        /\ \E id \in EntityIds :
            /\ hasComponent(lastCall.stages[k - 1], id, TrafficSignal)
            /\ getComponent(lastCall.stages[k - 1], id, TrafficSignal).state = "Green"
            /\ getComponent(lastCall.stages[k - 1], id, TrafficSignal).timeRemaining = lastCall.dt
            /\ getComponent(lastCall.stages[k], id, TrafficSignal).state = "Yellow"
            /\ getComponent(lastCall.stages[k], id, TrafficSignal).timeRemaining
                   = getComponent(lastCall.stages[k], id, TrafficSignal).yellowDuration


\* the identifiers of the entities alive in the world w
AliveEntities(w) == {id \in EntityIds : entityExists(w, id)}

\* C21: reserveVehicles(count) only pre-sizes storage: the set of alive
\* entities, getEntityCount() and getVehicleCount() are the same after the
\* call as before it, for every count and in every state of the facade.
C21_ReserveOnlyPresizes ==
    [][lastCall'.op = "reserveVehicles" /\ ~trapped =>
          /\ AliveEntities(m_world') = AliveEntities(m_world)
          /\ getEntityCount(m_world') = getEntityCount(m_world)
          /\ getVehicleCount(m_world') = getVehicleCount(m_world)]_vars


\* C22: connectWithIntersection with an unknown segment id returns the
\* not-found sentinel and leaves the network unchanged: no intersection is
\* created, no segment's intersection reference changes, and the next
\* intersection id to be issued is the same as before the call.
C22_ConnectUnknownSegment ==
    [][(/\ lastCall'.op = "connectWithIntersection"
        /\ \/ ~hasRoadSegment(networks[EditedNetwork], lastCall'.road1Id)
           \/ ~hasRoadSegment(networks[EditedNetwork], lastCall'.road2Id)) =>
          /\ lastCall'.id = InvalidId
          /\ networks'[EditedNetwork].m_intersections = networks[EditedNetwork].m_intersections
          /\ networks'[EditedNetwork].m_roadSegments = networks[EditedNetwork].m_roadSegments
          /\ networks'[EditedNetwork].m_nextIntersectionId = networks[EditedNetwork].m_nextIntersectionId
          /\ networks' = networks]_vars

\* C22 witness: connectWithIntersection was called on a network holding
\* segment 0 for the segments 0 and 1, of which 1 is not in the network; it
\* returned the sentinel, and the network holds no intersection
C22_Witness ==
    /\ lastCall.op = "connectWithIntersection"
    /\ lastCall.id = InvalidId
    /\ lastCall.road1Id = 0
    /\ lastCall.road2Id = 1
    /\ hasRoadSegment(networks[EditedNetwork], 0)
    /\ ~hasRoadSegment(networks[EditedNetwork], 1)
    /\ networks[EditedNetwork].m_intersections = EmptyMap
    /\ networks[EditedNetwork].m_nextIntersectionId = 0


\* C23: immediately after createRoadSegment(x1, y1, x2, y2) returns, the new
\* segment has zero lanes, so that the first addLane call made by the caller
\* returns lane id 0 (addLane returns the number of lanes held before it).
C23_NewSegmentHasNoLane ==
    lastCall.op = "createRoadSegment" =>
        /\ hasRoadSegment(networks[EditedNetwork], lastCall.id)
        /\ Len(getRoadSegment(networks[EditedNetwork], lastCall.id).m_lanes) = 0


\* C24: after any sequence of initialize and clear calls, at most one entity
\* carries a Bounds component, and the Bounds system clamps against the width
\* and height passed to the most recent initialize (kept in m_width and
\* m_height).
C24_SingleBounds ==
    lastCall.op \in {"initialize", "clear"} /\ ~trapped =>
        /\ Cardinality({id \in EntityIds : hasComponent(m_world, id, Bounds)}) <= 1
        /\ BoundsHolders(m_world) # {} =>
            /\ getComponent(m_world, FindGlobalBounds(m_world), Bounds).width = m_width
            /\ getComponent(m_world, FindGlobalBounds(m_world), Bounds).height = m_height


\* C25: after any sequence of initialize, createVehicle, reserveVehicles,
\* clear and update calls, getVehicleCount() equals the number of alive
\* entities that carry both a Transform and a Vehicle component (those the
\* Movement and Bounds systems process).
C25_VehicleCount ==
    getVehicleCount(m_world) =
        Cardinality({id \in EntityIds : /\ entityExists(m_world, id)
                                         /\ hasComponent(m_world, id, Transform)
                                         /\ hasComponent(m_world, id, Vehicle)})


\* C26: in the simplified facade, after any sequence of createVehicle and
\* clear calls, createVehicle returns an id that no currently active vehicle
\* holds and leaves the position, velocity and active flag of every other
\* active vehicle unchanged.
C26_SimpleCreateFresh ==
    [][lastCall'.op = "createVehicle" =>
          /\ ~(lastCall'.id < Len(m_vehicles) /\ m_vehicles[lastCall'.id + 1].active)
          /\ \A i \in 0 .. (Len(m_vehicles) - 1) :
                (i # lastCall'.id /\ m_vehicles[i + 1].active) =>
                    /\ i < Len(m_vehicles')
                    /\ m_vehicles'[i + 1].position = m_vehicles[i + 1].position
                    /\ m_vehicles'[i + 1].velocity = m_vehicles[i + 1].velocity
                    /\ m_vehicles'[i + 1].active]_vars


\* C27: in WasmWorld, after any sequence of createEntity, destroyEntity,
\* addComponent and removeComponent calls, getEntityCount() equals the number
\* of ids for which entityExists returns true.
C27_CountMatchesExisting ==
    ~trapped => getEntityCount(m_world) = Cardinality(AliveEntities(m_world))


\* the number of times id stands on the free list of w
TimesFree(w, id) == Cardinality({n \in 1 .. Len(w.m_freeEntities) : w.m_freeEntities[n] = id})

\* C28: in WasmWorld no identifier is ever lost or duplicated: an id that is
\* alive stays alive or goes on the free list, no id stands on the free list
\* twice, and no id is both alive and free; so every issued id is either
\* alive or on the free list exactly once, an id just returned by
\* createEntity that has not yet received its first component excepted, and
\* every dead id can be handed out again by createEntity.
C28_NoIdLost ==
    [][~trapped' =>
          /\ \A id \in EntityIds :
                entityExists(m_world, id) =>
                    \/ entityExists(m_world', id)
                    \/ TimesFree(m_world', id) = 1
          /\ \A id \in EntityIds :
                /\ TimesFree(m_world', id) <= 1
                /\ ~(entityExists(m_world', id) /\ TimesFree(m_world', id) > 0)]_vars


\* C29: with the facade initialized and keepInBounds true (the Bounds pass
\* of the update acted, on the one Bounds component, which holds m_width and
\* m_height), at the end of every update every entity with Transform and
\* Vehicle has its position inside [0, width] x [0, height], also when
\* Collision separates overlapping vehicles after the Bounds pass.
C29_InBoundsAfterUpdate ==
    (/\ lastCall.op = "update"
     /\ m_keepInBounds
     /\ BoundsActive(lastCall.stages[1])
     /\ Cardinality({id \in EntityIds : hasComponent(m_world, id, Bounds)}) = 1
     /\ getComponent(m_world, FindGlobalBounds(m_world), Bounds).width = m_width
     /\ getComponent(m_world, FindGlobalBounds(m_world), Bounds).height = m_height) =>
        \A id \in EntityIds :
            (hasComponent(m_world, id, Transform) /\ hasComponent(m_world, id, Vehicle)) =>
                LET position == getComponent(m_world, id, Transform).position
                IN  /\ FGe(position.x, 0) /\ FLe(position.x, m_width)
                    /\ FGe(position.y, 0) /\ FLe(position.y, m_height)


\* a connectWithIntersection call on the segments a and b has succeeded on
\* net: one of its intersections was made for the two
ConnectedOnce(net, a, b) ==
    \E i \in DOMAIN net.m_intersections :
        net.m_intersections[i].m_connectedRoads \in {<<a, b>>, <<b, a>>}

\* C30: adjacency is monotone while no segment is removed: once
\* connectWithIntersection(A, endA, B, endB) has succeeded, findPath between
\* a point on A and a point on B returns [A, B] after any further
\* connectWithIntersection calls, including calls that attach another
\* segment to the same endpoint of A or B.
C30_AdjacencyMonotone ==
    (/\ lastCall.op = "findPath"
     /\ lastCall.startRoadId # lastCall.endRoadId
     /\ ConnectedOnce(networks[m_roadNetwork], lastCall.startRoadId, lastCall.endRoadId)) =>
        lastCall.path = << <<lastCall.startRoadId, 0>>, <<lastCall.endRoadId, 0>> >>


\* the chains of pairwise different segments from a to b in which each two
\* consecutive segments share an intersection
Chains(net, a, b) ==
    {p \in UNION {[1 .. n -> DOMAIN net.m_roadSegments] : n \in 2 .. Cardinality(DOMAIN net.m_roadSegments)} :
        /\ p[1] = a
        /\ p[Len(p)] = b
        /\ \A k, l \in 1 .. Len(p) : p[k] = p[l] => k = l
        /\ \A k \in 1 .. (Len(p) - 1) : SharedBy(net, p[k], p[k + 1])}

RECURSIVE TraversalCost(_, _)
\* the traversal cost of a chain: the sum of the lengths of the segments left
TraversalCost(net, p) ==
    IF Len(p) <= 1 THEN 0
    ELSE getRoadSegment(net, p[1]).m_length + TraversalCost(net, Tail(p))

\* C31: whenever findPath returns a non-empty path between two different
\* segments, that path has the least total traversal cost (the sum of the
\* lengths of the segments being left) among all chains of
\* intersection-sharing segments from the start segment to the end segment.
C31_LeastCostPath ==
    (/\ lastCall.op = "findPath"
     /\ lastCall.path # <<>>
     /\ lastCall.startRoadId # lastCall.endRoadId) =>
        LET net == networks[m_roadNetwork]
            path == [k \in 1 .. Len(lastCall.path) |-> lastCall.path[k][1]]
        IN  \A p \in Chains(net, lastCall.startRoadId, lastCall.endRoadId) :
                TraversalCost(net, path) <= TraversalCost(net, p)


\* C32: the A* heuristic is admissible: for every segment s from which the
\* goal segment of a findPath call is reachable, the distance between the
\* midpoints of s and of the goal segment never exceeds the least total
\* traversal cost from s to the goal, where leaving a segment costs that
\* segment's length.
C32_HeuristicAdmissible ==
    (lastCall.op = "findPath" /\ lastCall.endRoadId # -1) =>
        LET net == networks[m_roadNetwork]
            endMidpoint == Midpoint(getRoadSegment(net, lastCall.endRoadId))
        IN  \A s \in DOMAIN net.m_roadSegments \ {lastCall.endRoadId} :
                \A p \in Chains(net, s, lastCall.endRoadId) :
                    FLe(heuristic(getRoadSegment(net, s), endMidpoint), TraversalCost(net, p))


\* the network the path-following system k of the world designates
FollowedNetwork(k) ==
    IF m_world.m_systems[k].roadNetwork = None THEN NoNetwork
    ELSE networks[m_world.m_systems[k].roadNetwork]

\* the pass of pathFollowingSystem over world w with network net reaches the
\* steering of entity id
Steered(w, id, net) ==
    /\ net # NoNetwork
    /\ entityExists(w, id)
    /\ hasComponent(w, id, Transform)
    /\ hasComponent(w, id, Vehicle)
    /\ hasComponent(w, id, PathFollowing)
    /\ LET vehicle == getComponent(w, id, Vehicle)
           p == getComponent(w, id, PathFollowing)
           advanced == [p EXCEPT !.currentPathIndex = @ + 1]
       IN  /\ ~hasReachedDestination(p)
           /\ hasRoadSegment(net, p.path[p.currentPathIndex + 1][1])
           /\ FGt(FAdd(p.distanceAlongCurrentSegment, FAdd(FMul(vehicle.currentSpeed, Fx(2)), Fx(5))),
                  getRoadSegment(net, p.path[p.currentPathIndex + 1][1]).m_length) =>
                 /\ ~hasReachedDestination(advanced)
                 /\ hasRoadSegment(net, advanced.path[advanced.currentPathIndex + 1][1])

\* the path-following passes of the last update that steered a vehicle: the
\* pairs of the index of the system and the entity
SteeringPasses ==
    IF lastCall.op # "update" THEN {}
    ELSE {c \in (2 .. Len(lastCall.stages)) \X EntityIds :
            /\ lastCall.order[c[1]] = "PathFollowing"
            /\ Steered(lastCall.stages[c[1] - 1], c[2], FollowedNetwork(c[1]))}

\* C33: in every Path-Following pass that steers a vehicle,
\* distanceAlongCurrentSegment increases by exactly (the vehicle's
\* currentSpeed as it was before the steering of this pass) * dt.
C33_DistanceBySpeedBefore ==
    \A c \in SteeringPasses :
        LET before == lastCall.stages[c[1] - 1]
            after == lastCall.stages[c[1]]
        IN  getComponent(after, c[2], PathFollowing).distanceAlongCurrentSegment =
                FAdd(getComponent(before, c[2], PathFollowing).distanceAlongCurrentSegment,
                     FMul(getComponent(before, c[2], Vehicle).currentSpeed, lastCall.dt))


\* C34: after every Path-Following pass that steers a vehicle, the vehicle's
\* currentSpeed equals the magnitude of the velocity stored in its Transform,
\* and therefore never exceeds maxSpeed.
C34_SpeedIsVelocityMagnitude ==
    \A c \in SteeringPasses :
        LET after == lastCall.stages[c[1]]
            vehicle == getComponent(after, c[2], Vehicle)
            velocity == getComponent(after, c[2], Transform).velocity
        IN  /\ vehicle.currentSpeed = Hypot(velocity.x, velocity.y)
            /\ FLe(vehicle.currentSpeed, vehicle.maxSpeed)


\* the path-following passes of the last update over a vehicle that holds a
\* PathFollowing component: the pairs of the index of the system and the entity
FollowingPasses ==
    IF lastCall.op # "update" THEN {}
    ELSE {c \in (2 .. Len(lastCall.stages)) \X EntityIds :
            /\ lastCall.order[c[1]] = "PathFollowing"
            /\ entityExists(lastCall.stages[c[1] - 1], c[2])
            /\ hasComponent(lastCall.stages[c[1] - 1], c[2], PathFollowing)}

\* C35: for every PathFollowing component, after any sequence of createPath
\* calls and updates, 0 <= cursor <= path length; a Path-Following pass never
\* decreases the cursor and raises it by at most 1.
C35_CursorWithinPath ==
    /\ \A id \in EntityIds :
          (entityExists(m_world, id) /\ hasComponent(m_world, id, PathFollowing)) =>
              LET p == getComponent(m_world, id, PathFollowing)
              IN  0 <= p.currentPathIndex /\ p.currentPathIndex <= Len(p.path)
    /\ \A c \in FollowingPasses :
          LET before == getComponent(lastCall.stages[c[1] - 1], c[2], PathFollowing)
              after == getComponent(lastCall.stages[c[1]], c[2], PathFollowing)
          IN  /\ before.currentPathIndex <= after.currentPathIndex
              /\ after.currentPathIndex <= before.currentPathIndex + 1
              /\ after.currentPathIndex <= Len(after.path)

\* a pass has moved the cursor of a vehicle from its last path entry to the
\* end of the path
C35_Witness ==
    \E c \in FollowingPasses :
        LET before == getComponent(lastCall.stages[c[1] - 1], c[2], PathFollowing)
            after == getComponent(lastCall.stages[c[1]], c[2], PathFollowing)
        IN  /\ before.path # <<>>
            /\ before.currentPathIndex = Len(before.path) - 1
            /\ after.currentPathIndex = Len(after.path)


\* the Signal-Timing passes of the last update over a signal whose time left
\* is not more than dt: the pairs of the index of the system and the entity
ExpiringPasses ==
    IF lastCall.op # "update" THEN {}
    ELSE {c \in (2 .. Len(lastCall.stages)) \X EntityIds :
            /\ lastCall.order[c[1]] = "SignalTiming"
            /\ hasComponent(lastCall.stages[c[1] - 1], c[2], TrafficSignal)
            /\ FLe(getComponent(lastCall.stages[c[1] - 1], c[2], TrafficSignal).timeRemaining, lastCall.dt)}

\* C36: a single Signal-Timing update advances a signal by at most one phase,
\* whatever the size of dt: when dt exceeds the remaining time, also by more
\* than the next phase's duration, the signal is in the next phase of the
\* cycle after the update and its timer is the full duration of that phase:
\* the next phase is not skipped and the overshoot is discarded.
C36_OnePhasePerUpdate ==
    \A c \in ExpiringPasses :
        LET before == getComponent(lastCall.stages[c[1] - 1], c[2], TrafficSignal)
            after == getComponent(lastCall.stages[Len(lastCall.stages)], c[2], TrafficSignal)
        IN  /\ after.state = NextPhase(before.state)
            /\ after.timeRemaining = PhaseDuration(before, NextPhase(before.state))

\* C36 witness: an update whose dt is larger than the time a Green signal had
\* left plus its positive yellow duration has left the signal Yellow with the
\* whole yellow duration on its timer
C36_Witness ==
    \E c \in ExpiringPasses :
        LET before == getComponent(lastCall.stages[c[1] - 1], c[2], TrafficSignal)
            after == getComponent(m_world, c[2], TrafficSignal)
        IN  /\ before.state = "Green"
            /\ FGt(before.yellowDuration, 0)
            /\ FGt(lastCall.dt, FAdd(before.timeRemaining, before.yellowDuration))
            /\ after.state = "Yellow"
            /\ after.timeRemaining = before.yellowDuration


\* the three phases of a signal
Phases == {"Green", "Yellow", "Red"}

\* the identifiers of the signals added under the frame loop
SignalIds == 0 .. (MaxSignals - 1)

\* entity id holds a signal
HasSignal(id) == entityExists(m_world, id) /\ hasComponent(m_world, id, TrafficSignal)

\* C37: signal liveness: for a signal with finite positive durations, under
\* repeated updates with dt > 0, each of the phases Green, Yellow and Red is
\* entered again and again; the signal never stays in one phase forever,
\* starting from the initial state Red with timeRemaining 0.
C37_EveryPhaseAgain ==
    \A id \in SignalIds : \A phase \in Phases :
        []<>(HasSignal(id) => getComponent(m_world, id, TrafficSignal).state = phase)


\* every time step of the frame loop is at least the distance between
\* neighbouring floats at each duration of the signal s (a duration times
\* 2^-23 at most), so that no subtraction leaves a positive timer as it was
Resolved(s) ==
    \A dt \in CycleDtValues : \A phase \in Phases :
        /\ PhaseDuration(s, phase) > 0
        /\ PhaseDuration(s, phase) \div 8388608 <= dt

\* C37, amended: for a signal with positive durations, under repeated updates
\* whose dt is each time at least the float spacing at the largest duration,
\* each of the phases Green, Yellow and Red is entered again and again,
\* starting from the initial state Red with timeRemaining 0.
C37_EveryPhaseAgainWhenResolved ==
    \A id \in SignalIds : \A phase \in Phases :
        []<>((HasSignal(id) /\ Resolved(getComponent(m_world, id, TrafficSignal))) =>
                getComponent(m_world, id, TrafficSignal).state = phase)

\* C37 witness: an update has brought a signal with durations of seconds from
\* Yellow back to Red, the phase it started in
C37_Witness ==
    /\ lastCall.op = "update"
    /\ \E id \in EntityIds :
        /\ HasSignal(id)
        /\ Resolved(getComponent(m_world, id, TrafficSignal))
        /\ getComponent(lastCall.stages[1], id, TrafficSignal).state = "Yellow"
        /\ getComponent(m_world, id, TrafficSignal).state = "Red"
        /\ getComponent(m_world, id, TrafficSignal).timeRemaining
               = getComponent(m_world, id, TrafficSignal).redDuration


\* the segments of the attached network findPath has not expanded in the
\* search that lastCall holds
Unexpanded(call) ==
    DOMAIN networks[m_roadNetwork].m_roadSegments \ call.st.closedSet

\* C38: findPath terminates on every finite road network, including networks
\* whose segments form cycles through intersections: every iteration of its
\* loop either expands a segment that was not expanded before, or takes a
\* node off the queue and adds none, so that the loop is left after finitely
\* many iterations; each segment is expanded at most once.
C38_SearchTerminates ==
    [][(lastCall.op = "search" /\ lastCall'.op = "search") =>
          /\ \/ /\ Cardinality(Unexpanded(lastCall')) = Cardinality(Unexpanded(lastCall)) - 1
                /\ Len(lastCall'.expanded) = Len(lastCall.expanded) + 1
             \/ /\ Unexpanded(lastCall') = Unexpanded(lastCall)
                /\ lastCall'.expanded = lastCall.expanded
                /\ Cardinality(lastCall'.st.openSet) = Cardinality(lastCall.st.openSet) - 1
          /\ \A k, l \in 1 .. Len(lastCall'.expanded) :
                lastCall'.expanded[k] = lastCall'.expanded[l] => k = l]_vars

\* C38 witness: on the network whose four segments are joined into a cycle a
\* search for a segment outside the cycle has returned after expanding the
\* four segments in five iterations, one of which found a segment at the top
\* of the queue that was expanded already
C38_Witness ==
    /\ lastCall.op = "findPath"
    /\ Cardinality(DOMAIN networks[EditedNetwork].m_intersections) = 4
    /\ Len(lastCall.expanded) = 4
    /\ lastCall.iterations = 5
    /\ lastCall.path = <<>>

\* the path a search returns is one the loop of findPath taken as a whole
\* returns
SearchAgreesWithAStar ==
    (lastCall.op = "findPath" /\ m_roadNetwork # None) =>
        lastCall.path \in findPathBetween(networks[m_roadNetwork], lastCall.startRoadId, lastCall.endRoadId)


\* the intersection reference of the segment road at its end (atEnd) or at
\* its start
IntersectionAt(road, atEnd) ==
    IF atEnd THEN road.m_endIntersection ELSE road.m_startIntersection

\* C39: after connectWithIntersection(A, endA, B, endB) returns intersection I
\* for two distinct existing segments, the intersection reference of A at the
\* chosen endpoint and that of B at its chosen endpoint are I, the references
\* at the two other endpoints are unchanged, and no other segment or
\* intersection is modified.
C39_ConnectFrame ==
    [][(lastCall'.op = "connectWithIntersection" /\ lastCall'.id # InvalidId) =>
          LET before == networks[EditedNetwork]
              after == networks'[EditedNetwork]
              A == lastCall'.road1Id
              B == lastCall'.road2Id
              I == lastCall'.id
          IN  /\ IntersectionAt(after.m_roadSegments[A], lastCall'.road1End) = I
              /\ IntersectionAt(after.m_roadSegments[B], lastCall'.road2End) = I
              /\ IntersectionAt(after.m_roadSegments[A], ~lastCall'.road1End)
                     = IntersectionAt(before.m_roadSegments[A], ~lastCall'.road1End)
              /\ IntersectionAt(after.m_roadSegments[B], ~lastCall'.road2End)
                     = IntersectionAt(before.m_roadSegments[B], ~lastCall'.road2End)
              /\ \A r \in {A, B} :
                    [after.m_roadSegments[r] EXCEPT !.m_startIntersection = 0, !.m_endIntersection = 0]
                        = [before.m_roadSegments[r] EXCEPT !.m_startIntersection = 0, !.m_endIntersection = 0]
              /\ DOMAIN after.m_roadSegments = DOMAIN before.m_roadSegments
              /\ \A r \in DOMAIN before.m_roadSegments \ {A, B} :
                    after.m_roadSegments[r] = before.m_roadSegments[r]
              /\ I \notin DOMAIN before.m_intersections
              /\ DOMAIN after.m_intersections = DOMAIN before.m_intersections \cup {I}
              /\ \A i \in DOMAIN before.m_intersections :
                    after.m_intersections[i] = before.m_intersections[i]]_vars

\* C39 witness: a second connectWithIntersection call has returned, on the
\* end of a segment whose start the first call had connected: the segment
\* refers to the first intersection at its start and to the new one at its end
C39_Witness ==
    /\ lastCall.op = "connectWithIntersection"
    /\ lastCall.id = 1
    /\ \E r \in {lastCall.road1Id, lastCall.road2Id} :
          /\ networks[EditedNetwork].m_roadSegments[r].m_startIntersection = 0
          /\ networks[EditedNetwork].m_roadSegments[r].m_endIntersection = 1


\* the position update(dt) is to give the vehicle id: where it was plus its
\* velocity times dt
MovedBy(sim, id, dt) ==
    WasmVector2D(FAdd(coreGetVehiclePosition(sim, id).x, FMul(coreGetVehicleVelocity(sim, id).x, dt)),
                 FAdd(coreGetVehiclePosition(sim, id).y, FMul(coreGetVehicleVelocity(sim, id).y, dt)))

\* the point lies strictly inside the bounds of the core facade
InsideBounds(sim, p) == FGt(p.x, 0) /\ FLt(p.x, sim.m_width) /\ FGt(p.y, 0) /\ FLt(p.y, sim.m_height)

\* C40: in the core facade, after initialize and createVehicle(x, y, vx, vy),
\* one update(dt) in which no bound is reached moves the vehicle to
\* (x + vx*dt, y + vy*dt) and getVehicleVelocity still returns (vx, vy); the
\* vehicles are as created while no update was made (ticks = 0)
C40_UpdateMovesByVelocity ==
    [][(lastCall'.op = "update" /\ ticks = 0 /\ ticks' = 1 /\ simulation.m_initialized)
       => \A id \in DOMAIN simulation.m_simIDToEntity :
             InsideBounds(simulation, MovedBy(simulation, id, lastCall'.dt))
             => /\ coreGetVehiclePosition(simulation', id) = MovedBy(simulation, id, lastCall'.dt)
                /\ coreGetVehicleVelocity(simulation', id) = coreGetVehicleVelocity(simulation, id)]_vars

====
